---- MODULE Spec2Model ----
(***************************************************************************)
(* A model of the Tuya camera protocol engine of homebridge-tuyacam:       *)
(* the control connection (class TuyaDevice) with its packet codec,        *)
(* cipher layer, command channel, heartbeat, motion notifications and      *)
(* address discovery, the stream connection (class TuyaStreamDecoder)      *)
(* with the scan of its frame-buffer, the listener that feeds the media    *)
(* pipe, and the streaming delegate (class TuyaCameraStreamingDelegate).   *)
(* Time is counted in units of 1000 ms, so setTimeout(f, 5000) is a timer  *)
(* of 5 units.  Timers are countdowns: Tick lowers every armed timer by    *)
(* one step of time and is disabled while a timer is due.                  *)
(***************************************************************************)
EXTENDS Integers, Sequences, FiniteSets, TLC

(***************************************************************************)
(* Bounds of the model: sockets created by connect(), sendCommand calls    *)
(* (heartbeats included), motion pushes received, and the highest sequence *)
(* number the codec is tried on.                                           *)
(***************************************************************************)
MaxSockets == 2
MaxCalls == 2
MaxPushes == 1
MaxCodecSeq == 3

VARIABLES
    ip,                 \* this.ip: 0 (undefined) or the address
    connected,          \* this.connected
    socket,             \* this.socket: 0 (undefined) or the socket's number
    sequence,           \* this.sequence
    heartbeatInterval,  \* this.heartbeatInterval: 0 (undefined) or the timer's number
    sockets,            \* every net.Socket connect() created
    intervals,          \* every setInterval timer startHeartbeat created
    calls,              \* every sendCommand call: its promise, timeout and listener
    written,            \* the frames written by socket.write, in order
    motionTimers,       \* the setTimeout timers armed by handlePayload
    emitted,            \* the 'motion' events emitted, in order
    pushes,             \* the number of motion pushes the device sent
    codecIn,            \* codec check: the command, sequence and payload to encode
    codecPacket,        \* codec check: the bytes buildPacket returned
    codecOut,           \* codec check: what the receive side read from them
    lastChunk,          \* the read of the control socket that the model keeps note of
    streamSocket,       \* stream: the state of this.socket
    sessionKey,         \* stream: this.sessionKey, 0 when undefined
    frameBuffer,        \* stream: this.frameBuffer
    videoData,          \* stream: the 'videoData' events emitted, in order
    packets,            \* stream: the packets handleStreamData cut from the buffer
    keysUsed,           \* stream: the keys encryptPayload and decryptPayload used
    streamWritten,      \* stream: the commands written by socket.write, in order
    stopArmed,          \* stream: the setTimeout of stop() is armed
    streamFault,        \* stream: an exception left the 'data' listener
    streamSent,         \* stream: the frames the device has sent completely
    deviceRest,         \* stream: the rest of a frame the device has sent in part
    unitsEmitted,       \* media pipe: the 'videoData' events the listener received
    videoInput,         \* media pipe: the buffers written to videoInput, in order
    constructing,       \* the accessory's constructor has not called connect() yet
    discovery,          \* discoverIP: "idle" (not called), "pending", "done" (resolved)
    discTimer,          \* discoverIP: the setTimeout that ends the discovery
    datagrams,          \* discoverIP: the datagrams the 'message' listener received
    twinRead,           \* twin: what handleData made of the last read and of its twin
    twinBuffer,         \* twin: this.frameBuffer of the twin decoder
    twinVideo,          \* twin: the 'videoData' events of the twin decoder
    twinPackets,        \* twin: the packets the twin decoder cut from its buffer
    twinFault,          \* twin: an exception left the twin decoder's 'data' listener
    crcIn,              \* checksum check: the bytes to sum
    crcOut,             \* checksum check: what the two checksum functions returned
    sinceMotion,        \* the units of time since the last 'motion' true event
    scanCall,           \* scan: the buffer and the bytes handleStreamData was called with
    scanState,          \* scan: this.frameBuffer and the position in the while loop
    sessions,           \* delegate: this.sessions, the SessionInfo of each session id (0: none)
    infos,              \* delegate: every SessionInfo object prepareStream created
    requests,           \* delegate: every handleStreamRequest call and its callback's calls
    decoders,           \* delegate: every TuyaStreamDecoder getStreamSource created
    processes           \* delegate: every ffmpeg process startStream spawned

ctrlVars ==
    << ip, connected, socket, sequence, heartbeatInterval, sockets, intervals,
       calls, written, motionTimers, emitted, pushes >>

codecVars == << codecIn, codecPacket, codecOut >>

streamVars ==
    << streamSocket, sessionKey, frameBuffer, videoData, packets, keysUsed,
       streamWritten, stopArmed, streamFault, streamSent, deviceRest >>

pipeVars == << unitsEmitted, videoInput >>

\* The state outside the two connections and the codec check.
discVars == << constructing, discovery, discTimer, datagrams >>

twinVars == << twinRead, twinBuffer, twinVideo, twinPackets, twinFault >>

crcVars == << crcIn, crcOut >>

scanVars == << scanCall, scanState >>

\* The state of the checks that came last.
delegateVars == << sessions, infos, requests, decoders, processes >>

lateVars == << scanVars, delegateVars >>

extVars == << pipeVars, discVars, twinVars, crcVars, sinceMotion, lateVars >>

vars == << ctrlVars, codecVars, lastChunk, streamVars, extVars >>

\* What a step of the control connection leaves alone.
restVars == << codecVars, lastChunk, streamVars, extVars >>

\* What a step of the stream connection leaves alone.
streamRest == << ctrlVars, codecVars, lastChunk, extVars >>

(***************************************************************************)
(* Program constants.                                                      *)
(***************************************************************************)
CONNECT_TIMEOUT == 10
COMMAND_TIMEOUT == 5
HEARTBEAT_INTERVAL == 10
MOTION_CLEAR_DELAY == 30
CMD_CONTROL == 7
CMD_STATUS == 8
CMD_HEARTBEAT == 9
CMD_DP_QUERY == 10
CMD_STREAM == 18
DP_MOTION_SWITCH == 134
DP_MOTION_DETECTED == 115
DP_PTZ_CONTROL == 119
DP_RECORD == 150
BLOCK_SIZE == 16
MIN_PACKET == 20
SUFFIX_LEN == 8

(***************************************************************************)
(* Buffers are sequences of bytes.  Offsets are those of the source (from  *)
(* 0); a TLA+ sequence is indexed from 1.                                  *)
(***************************************************************************)
Byte == 0..255

\* Buffer.slice(start, end): both clamped to the buffer, empty when end <= start.
Slice(buf, start, end) ==
    LET e == IF end > Len(buf) THEN Len(buf) ELSE IF end < 0 THEN 0 ELSE end
        s == IF start > Len(buf) THEN Len(buf) ELSE start
    IN  IF e <= s THEN <<>> ELSE SubSeq(buf, s + 1, e)

\* Buffer.writeUInt32BE(n) into a fresh 4-byte buffer.
WriteUInt32BE(n) ==
    << (n \div 16777216) % 256, (n \div 65536) % 256, (n \div 256) % 256, n % 256 >>

\* Buffer.readUInt32BE(offset).  The model checker's integers end at 2^31-1:
\* a field of 2^31 or more reads as 2^31-1.  No buffer, command code or
\* sequence number of the model comes near either value, so every comparison
\* the source makes with the field has the same outcome.
ReadUInt32BE(buf, offset) ==
    IF buf[offset + 1] >= 128
    THEN 2147483647
    ELSE buf[offset + 1] * 16777216 + buf[offset + 2] * 65536
            + buf[offset + 3] * 256 + buf[offset + 4]

\* Buffer.from('000055aa', 'hex') and Buffer.from('0000aa55', 'hex').
HEADER == << 0, 0, 85, 170 >>
FOOTER == << 0, 0, 170, 85 >>

\* data.toString('hex').startsWith('000055aa')
StartsWithHeader(buf) ==
    Len(buf) >= 4 /\ SubSeq(buf, 1, 4) = HEADER

(***************************************************************************)
(* Checksum engine.  JavaScript's ^, ~ and >>> act on the 32 bits of their *)
(* operands; the model keeps those 32 bits as four bytes, most significant *)
(* first, which is also the order writeUInt32BE writes them in.            *)
(***************************************************************************)
RECURSIVE BitXor(_, _)
BitXor(a, b) ==
    IF a = 0 THEN b
    ELSE IF b = 0 THEN a
    ELSE ((a + b) % 2) + 2 * BitXor(a \div 2, b \div 2)

\* 0xFFFFFFFF and 0xEDB88320
CRC_INIT == << 255, 255, 255, 255 >>
CRC_POLY == << 237, 184, 131, 32 >>

\* w ^ v on 32-bit words
WordXor(w, v) ==
    << BitXor(w[1], v[1]), BitXor(w[2], v[2]), BitXor(w[3], v[3]), BitXor(w[4], v[4]) >>

\* w >>> 1
WordShr1(w) ==
    << w[1] \div 2,
       (w[2] \div 2) + 128 * (w[1] % 2),
       (w[3] \div 2) + 128 * (w[2] % 2),
       (w[4] \div 2) + 128 * (w[3] % 2) >>

\* The inner loop of calculateCRC: i counts the 8 shifts left for one byte.
RECURSIVE CrcShift(_, _)
CrcShift(crc, i) ==
    IF i = 0 THEN crc
    ELSE CrcShift(IF crc[4] % 2 = 1 THEN WordXor(WordShr1(crc), CRC_POLY)
                                   ELSE WordShr1(crc),
                  i - 1)

\* The outer loop of calculateCRC; st holds the index k of the next byte and
\* the value of crc before it.
RECURSIVE CrcLoop(_, _)
CrcLoop(data, st) ==
    IF st.k > Len(data) THEN st.crc
    ELSE CrcLoop(data, [k   |-> st.k + 1,
                        crc |-> CrcShift(WordXor(st.crc, << 0, 0, 0, data[st.k] >>), 8)])

\* TuyaDevice.calculateCRC: ~crc >>> 0, written big-endian.
calculateCRC(data) ==
    LET crc == CrcLoop(data, [k |-> 1, crc |-> CRC_INIT])
    IN  << 255 - crc[1], 255 - crc[2], 255 - crc[3], 255 - crc[4] >>

(***************************************************************************)
(* Cipher layer.  AES-128-ECB is modelled as a keyed substitution of the   *)
(* bytes of each 16-byte block (a bijection for every key, different for   *)
(* different keys); the PKCS#7 padding Node applies by default is modelled *)
(* exactly: 1..16 bytes are added, each holding their number, and          *)
(* decryption fails on a length that is no multiple of the block size or   *)
(* on a malformed padding.                                                 *)
(***************************************************************************)
localKey == 77

Pkcs7Pad(plain) ==
    LET n == BLOCK_SIZE - (Len(plain) % BLOCK_SIZE)
    IN  plain \o [i \in 1..n |-> n]

Pkcs7Ok(padded) ==
    /\ Len(padded) > 0
    /\ Len(padded) % BLOCK_SIZE = 0
    /\ LET n == padded[Len(padded)]
       IN  /\ n >= 1
           /\ n <= BLOCK_SIZE
           /\ \A i \in (Len(padded) - n + 1)..Len(padded) : padded[i] = n

\* cipher.update(bytes) ++ cipher.final()
Encrypt(key, plain) ==
    LET padded == Pkcs7Pad(plain)
    IN  [i \in 1..Len(padded) |-> (padded[i] + key) % 256]

\* decipher.update(bytes) ++ decipher.final(); ok = FALSE models the throw.
Decrypt(key, cipher) ==
    LET padded == [i \in 1..Len(cipher) |-> (cipher[i] + 256 - key) % 256]
    IN  IF Pkcs7Ok(padded)
        THEN [ok |-> TRUE, data |-> SubSeq(padded, 1, Len(padded) - padded[Len(padded)])]
        ELSE [ok |-> FALSE, data |-> <<>>]

(***************************************************************************)
(* Packet codec of the control connection.                                 *)
(***************************************************************************)
\* TuyaDevice.buildPacket with this.sequence already incremented to seq.
PacketBytes(command, seq, payload) ==
    LET crcData == HEADER \o WriteUInt32BE(command) \o WriteUInt32BE(seq)
                     \o WriteUInt32BE(Len(payload) + SUFFIX_LEN) \o payload
    IN  crcData \o calculateCRC(crcData) \o FOOTER


\* this.sequence++ at the head of buildPacket.
NextSequence(sequence0) == sequence0 + 1

\* TuyaDevice.buildPacket: increments this.sequence, then frames the payload.
buildPacket(sequence0, command, payload) ==
    [sequence |-> NextSequence(sequence0),
     packet   |-> PacketBytes(command, NextSequence(sequence0), payload)]

\* The head of TuyaDevice.handleData: the validity checks and the fields read.
\* 20 + length is compared as length against data.length - 20.
ParseFrame(data) ==
    IF Len(data) < MIN_PACKET \/ ~StartsWithHeader(data)
    THEN [ok |-> FALSE, command |-> 0, sequence |-> 0, length |-> 0, encrypted |-> <<>>]
    ELSE LET command  == ReadUInt32BE(data, 8)
             seq      == ReadUInt32BE(data, 12)
             length   == ReadUInt32BE(data, 16)
         IN  IF Len(data) - MIN_PACKET < length
             THEN [ok |-> FALSE, command |-> command, sequence |-> seq,
                   length |-> length, encrypted |-> <<>>]
             ELSE [ok |-> TRUE, command |-> command, sequence |-> seq,
                   length |-> length,
                   encrypted |-> Slice(data, MIN_PACKET, MIN_PACKET + length - SUFFIX_LEN)]

(***************************************************************************)
(* Structured payloads.  A JSON value of the model is null or an object    *)
(* with or without a "dps" member; dps is the set of its <<data point,     *)
(* value>> members.  JSON texts are byte sequences (ASCII).                *)
(***************************************************************************)
JsonObject(hasDps, dps) == [isNull |-> FALSE, hasDps |-> hasDps, dps |-> dps]
JsonNull == [isNull |-> TRUE, hasDps |-> FALSE, dps |-> {}]

\* The payloads the public operations pass to sendCommand.
HeartbeatPayload == JsonObject(FALSE, {})
StatusQuery == JsonObject(TRUE, {})
StreamOn == JsonObject(TRUE, { << DP_RECORD, "true" >> })
PtzUp == JsonObject(TRUE, { << DP_PTZ_CONTROL, "2" >> })

\* The payloads of the frames the device sends.
EmptyReply == JsonObject(FALSE, {})
StatusReply == JsonObject(TRUE, { << DP_MOTION_SWITCH, "true" >> })
StatusReplyOff == JsonObject(TRUE, { << DP_MOTION_SWITCH, "false" >> })
MotionPush == JsonObject(TRUE, { << DP_MOTION_DETECTED, "true" >> })

\* The JSON texts of the device's payloads:
\* {}  {"dps":{"134":true}}  {"dps":{"134":false}}  {"dps":{"115":true}}  null
JsonTexts ==
    << [value |-> EmptyReply, text |-> << 123, 125 >>],
       [value |-> StatusReply,
        text  |-> << 123, 34, 100, 112, 115, 34, 58, 123, 34, 49, 51, 52, 34, 58,
                     116, 114, 117, 101, 125, 125 >>],
       [value |-> StatusReplyOff,
        text  |-> << 123, 34, 100, 112, 115, 34, 58, 123, 34, 49, 51, 52, 34, 58,
                     102, 97, 108, 115, 101, 125, 125 >>],
       [value |-> MotionPush,
        text  |-> << 123, 34, 100, 112, 115, 34, 58, 123, 34, 49, 49, 53, 34, 58,
                     116, 114, 117, 101, 125, 125 >>],
       [value |-> JsonNull, text |-> << 110, 117, 108, 108 >>] >>

\* A parser that takes every text for {}: what JSON.parse is not.
\* C15_BadChunkDropped tells the two apart.
JsonParseLenient(text) ==
    IF \E i \in DOMAIN JsonTexts : JsonTexts[i].text = text
    THEN [ok |-> TRUE,
          value |-> JsonTexts[CHOOSE i \in DOMAIN JsonTexts : JsonTexts[i].text = text].value]
    ELSE [ok |-> TRUE, value |-> EmptyReply]

\* JSON.parse on the texts above; any other text of the model is malformed
\* (ok = FALSE models the SyntaxError).
JsonParse(text) ==
    IF \E i \in DOMAIN JsonTexts : JsonTexts[i].text = text
    THEN [ok |-> TRUE,
          value |-> JsonTexts[CHOOSE i \in DOMAIN JsonTexts : JsonTexts[i].text = text].value]
    ELSE [ok |-> FALSE, value |-> JsonNull]

\* The text the device serialises a payload to.
JsonTextOf(value) ==
    JsonTexts[CHOOSE i \in DOMAIN JsonTexts : JsonTexts[i].value = value].text

\* decrypted.toString().replace(/\0/g, '')
StripNul(bytes) == SelectSeq(bytes, LAMBDA b : b # 0)

\* TuyaDevice.handleData up to the call of handlePayload: deliver says whether
\* handlePayload is called, and with what.
handleData(data) ==
    LET frame == ParseFrame(data)
        none  == [deliver |-> FALSE, command |-> 0, sequence |-> 0, payload |-> JsonNull]
    IN  IF ~frame.ok THEN none
        ELSE LET decrypted == IF Len(frame.encrypted) > 0
                              THEN Decrypt(localKey, frame.encrypted)
                              ELSE [ok |-> TRUE, data |-> frame.encrypted]
             IN  IF ~decrypted.ok THEN none
                 ELSE LET jsonStr == StripNul(decrypted.data)
                      IN  IF jsonStr = <<>> THEN none
                          ELSE LET parsed == JsonParse(jsonStr)
                               IN  IF ~parsed.ok THEN none
                                   ELSE [deliver  |-> TRUE,
                                         command  |-> frame.command,
                                         sequence |-> frame.sequence,
                                         payload  |-> parsed.value]

\* Bytes that handleData reads as a frame of the given command, sequence and
\* payload: the magic header, four bytes it never reads, command, sequence,
\* length, the encrypted JSON text, and eight trailing bytes it never reads.
DeviceFrame(command, seq, value) ==
    LET encrypted == Encrypt(localKey, JsonTextOf(value))
    IN  HEADER \o << 0, 0, 0, 0 >> \o WriteUInt32BE(command) \o WriteUInt32BE(seq)
          \o WriteUInt32BE(Len(encrypted) + SUFFIX_LEN) \o encrypted
          \o << 0, 0, 0, 0 >> \o FOOTER

\* A frame of the given command, sequence and payload laid out as buildPacket
\* lays a frame out.
CodecFrame(command, seq, value) ==
    PacketBytes(command, seq, Encrypt(localKey, JsonTextOf(value)))

(***************************************************************************)
(* The control connection: class TuyaDevice.                               *)
(***************************************************************************)
Sock == 1..MaxSockets

\* Time advances in steps of the shortest timer of the program, 5 units: every
\* timer of the program lasts a multiple of it.  A timer is a countdown of the
\* units left, Unarmed when it is not armed.
Step == COMMAND_TIMEOUT
Unarmed == -1
Dec(t) == IF t > 0 THEN t - Step ELSE t

\* The state of a net.Socket: "none" (not created yet), "connecting", "open",
\* "destroyed" (destroy() called, 'close' not emitted yet), "closed" ('close'
\* emitted).  result is the promise connect() returned for it; idle is the
\* timer of socket.setTimeout, timedOut says that it has fired; address is the
\* address socket.connect was given.
NoSocket ==
    [state |-> "none", result |-> "none", idle |-> Unarmed, timedOut |-> FALSE,
     address |-> 0]

\* resolve(v) of the promise connect() returned: the first call settles it.
ResolveConnect(sk, v) ==
    [sk EXCEPT !.result = IF @ = "pending" THEN v ELSE @]

\* A sendCommand call.  accepted: it passed the connected check; seq: the
\* sequence its listener is registered under; state, error, response: its
\* promise; timer: its setTimeout; listener: its once() listener is registered.
\* frameSeq is the sequence handleData read from the frame that resolved it and
\* frameValue the payload the device put in that frame.  reply is the payload
\* of a frame that the device laid out as buildPacket does, with this call's
\* sequence, and that arrived while the call was pending.
NewCall(seq) ==
    [accepted |-> TRUE, seq |-> seq, state |-> "pending",
     error |-> "", response |-> JsonNull, timer |-> COMMAND_TIMEOUT,
     listener |-> TRUE, frameSeq |-> -1, frameValue |-> JsonNull, reply |-> JsonNull]

\* The call of a sendCommand that threw 'Not connected'.
RefusedCall ==
    [accepted |-> FALSE, seq |-> 0, state |-> "rejected",
     error |-> "Not connected", response |-> JsonNull, timer |-> Unarmed,
     listener |-> FALSE, frameSeq |-> -1, frameValue |-> JsonNull, reply |-> JsonNull]

\* A resolve that settles the promise again: what resolve is not.  C3_SettledOnce
\* tells the two apart.
ResolveAgain(call, response) ==
    [call EXCEPT !.state = "resolved", !.response = response]

\* resolve(response) and reject(error) of a call's promise: the first settles it.
Resolve(call, response) ==
    IF call.state = "pending"
    THEN [call EXCEPT !.state = "resolved", !.response = response]
    ELSE call

Reject(call, error) ==
    IF call.state = "pending"
    THEN [call EXCEPT !.state = "rejected", !.error = error]
    ELSE call

\* A check that looks at the socket only: what the check of sendCommand is not.
\* C8_NotConnected tells the two apart.
CanSendSocketOnly == socket # 0

\* The check at the head of sendCommand: connected and a socket.
CanSend == connected /\ socket # 0

\* A sendCommand that registers its listener before buildPacket has
\* incremented the sequence: what sendCommand is not.  C18_SequencePerFrame
\* tells the two apart.
sendCommandEarly(command, payload) ==
    IF ~CanSend
    THEN [sequence |-> sequence, written |-> written,
          calls |-> Append(calls, RefusedCall)]
    ELSE LET seq == NextSequence(sequence)
         IN  [sequence |-> seq,
              written  |-> Append(written, [socket |-> socket, command |-> command,
                                            sequence |-> seq, payload |-> payload]),
              calls    |-> Append(calls, NewCall(sequence))]

\* TuyaDevice.sendCommand: what it makes of sequence, written and calls.
sendCommand(command, payload) ==
    IF ~CanSend
    THEN [sequence |-> sequence, written |-> written,
          calls |-> Append(calls, RefusedCall)]
    ELSE LET seq == NextSequence(sequence)
         IN  [sequence |-> seq,
              written  |-> Append(written, [socket |-> socket, command |-> command,
                                            sequence |-> seq, payload |-> payload]),
              calls    |-> Append(calls, NewCall(seq))]

\* The listener sendCommand registers: clearTimeout, then resolve(response).
Handler(call, response) ==
    [Resolve(call, response) EXCEPT !.timer = Unarmed]

\* this.emit(`response_${seq}`, payload): every listener registered under seq
\* runs and, being a once() listener, is removed.
EmitResponse(cs, seq, payload) ==
    [k \in DOMAIN cs |->
        IF cs[k].listener /\ cs[k].seq = seq
        THEN [Handler(cs[k], payload) EXCEPT !.listener = FALSE]
        ELSE cs[k]]

\* command === 8 && payload.dps && payload.dps[MOTION_DETECTED] !== undefined
IsMotion(command, payload) ==
    /\ command = CMD_STATUS
    /\ ~payload.isNull
    /\ payload.hasDps
    /\ \E m \in payload.dps : m[1] = DP_MOTION_DETECTED

\* TuyaDevice.handlePayload: the calls after the emit, and whether the motion
\* event is emitted and its clearing timer armed.  On a null payload the emit
\* is followed by a TypeError, which handleData catches.
handlePayload(cs, command, seq, payload) ==
    [calls  |-> EmitResponse(cs, seq, payload),
     motion |-> IsMotion(command, payload)]

\* stopHeartbeat: clearInterval of the timer this.heartbeatInterval holds.
stopHeartbeat(ivs, hb) ==
    IF hb # 0 THEN [ivs EXCEPT ![hb] = Unarmed] ELSE ivs

\* The addresses of the model: the one the configuration gives, the device's
\* own, and another host's.
CONFIGURED_IP == 1
DEVICE_IP == 2
OTHER_IP == 3

CtrlInit ==
    /\ ip \in { 0, CONFIGURED_IP }
    /\ connected = FALSE
    /\ socket = 0
    /\ sequence = 0
    /\ heartbeatInterval = 0
    /\ sockets = [s \in Sock |-> NoSocket]
    /\ intervals = [s \in Sock |-> Unarmed]
    /\ calls = <<>>
    /\ written = <<>>
    /\ motionTimers = <<>>
    /\ emitted = <<>>
    /\ pushes = 0

\* connect(): already connected, no address, or a new socket that connects.
Connect ==
    \/ /\ connected
       /\ UNCHANGED ctrlVars
    \/ /\ ~connected
       /\ ip = 0
       /\ UNCHANGED ctrlVars
    \/ /\ ~connected
       /\ ip # 0
       /\ \E s \in Sock :
            /\ sockets[s].state = "none"
            /\ \A r \in 1..(s - 1) : sockets[r].state # "none"
            /\ sockets' = [sockets EXCEPT ![s] =
                              [state |-> "connecting", result |-> "pending",
                               idle |-> CONNECT_TIMEOUT, timedOut |-> FALSE,
                               address |-> ip]]
            /\ socket' = s
       /\ UNCHANGED << ip, connected, sequence, heartbeatInterval, intervals, calls,
                       written, motionTimers, emitted, pushes >>

\* disconnect()
Disconnect ==
    /\ intervals' = stopHeartbeat(intervals, heartbeatInterval)
    /\ heartbeatInterval' = 0
    /\ sockets' = IF socket # 0 /\ sockets[socket].state \in {"connecting", "open"}
                  THEN [sockets EXCEPT ![socket].state = "destroyed",
                                       ![socket].idle = Unarmed]
                  ELSE sockets
    /\ socket' = 0
    /\ connected' = FALSE
    /\ UNCHANGED << ip, sequence, calls, written, motionTimers, emitted, pushes >>

\* The socket's 'connect' event.  The model follows the socket's idle timer
\* only until then: its 'timeout' event has no listener.
SocketConnect(s) ==
    /\ sockets[s].state = "connecting"
    /\ connected' = TRUE
    /\ intervals' = [intervals EXCEPT ![s] = HEARTBEAT_INTERVAL]
    /\ heartbeatInterval' = s
    /\ sockets' = [sockets EXCEPT ![s] =
                      [ResolveConnect(@, "true") EXCEPT !.state = "open", !.idle = Unarmed]]
    /\ UNCHANGED << ip, socket, sequence, calls, written, motionTimers, emitted, pushes >>

\* The socket's 'close' handler.
OnClose(s) ==
    /\ connected' = FALSE
    /\ intervals' = stopHeartbeat(intervals, heartbeatInterval)
    /\ heartbeatInterval' = 0

\* The socket's 'error' event, which Node follows directly with 'close'.
SocketError(s) ==
    /\ sockets[s].state \in {"connecting", "open"}
    /\ sockets' = [sockets EXCEPT ![s] =
                      [ResolveConnect(@, "false") EXCEPT !.state = "closed", !.idle = Unarmed]]
    /\ OnClose(s)
    /\ UNCHANGED << ip, socket, sequence, calls, written, motionTimers, emitted, pushes >>

\* The socket's 'close' event: the peer closed an open socket, or destroy()
\* was called on it.
SocketClose(s) ==
    /\ sockets[s].state \in {"open", "destroyed"}
    /\ sockets' = [sockets EXCEPT ![s].state = "closed", ![s].idle = Unarmed]
    /\ OnClose(s)
    /\ UNCHANGED << ip, socket, sequence, calls, written, motionTimers, emitted, pushes >>

\* The socket's 'timeout' event, 10 units after socket.setTimeout(10000): no
\* listener is registered for it.
SocketTimeout(s) ==
    /\ sockets[s].idle = 0
    /\ sockets' = [sockets EXCEPT ![s].idle = Unarmed, ![s].timedOut = TRUE]
    /\ UNCHANGED << ip, connected, socket, sequence, heartbeatInterval, intervals,
                    calls, written, motionTimers, emitted, pushes >>

\* What the device sends in one read: a whole frame with a command, a
\* sequence number and a payload, laid out as buildPacket lays a frame out
\* ("codec") or as handleData reads one ("read"), or bytes that are no frame.
DeviceCommands == { CMD_STATUS, CMD_DP_QUERY }
DevicePayloads == { StatusReply, MotionPush }
Garbage == << 1, 2, 3 >>

Inbound ==
    { [layout |-> "codec", command |-> c, seq |-> q, value |-> v,
       chunk |-> CodecFrame(c, q, v)] :
          c \in DeviceCommands, q \in 0..MaxCalls, v \in DevicePayloads }
      \cup
    { [layout |-> "read", command |-> c, seq |-> q, value |-> v,
       chunk |-> DeviceFrame(c, q, v)] :
          c \in DeviceCommands, q \in 0..MaxCalls, v \in DevicePayloads }
      \cup
    { [layout |-> "none", command |-> 0, seq |-> -1, value |-> JsonNull,
       chunk |-> Garbage] }

\* The frame is a status push that holds the motion-detected data point.
IsPush(sent) == sent.command = CMD_STATUS /\ sent.value = MotionPush

\* handleData on each of them.
Handled == { [sent |-> f, r |-> handleData(f.chunk)] : f \in Inbound }

\* The frames that handleData reads as the device meant them and that are no
\* status push, with the bytes that are no frame.
Replies == { in \in Handled : in.sent.layout # "codec" /\ ~IsPush(in.sent) }

\* The calls, with the reply the device sent noted on the call it answers: a
\* frame in the layout of buildPacket, either frame of two that came in one
\* read, or a frame whose last bytes came in this read.
NoteReply(cs, sent) ==
    [k \in DOMAIN cs |->
        IF cs[k].state # "pending" THEN cs[k]
        ELSE IF sent.layout \in { "codec", "pair", "tail" } /\ cs[k].seq = sent.seq
        THEN [cs[k] EXCEPT !.reply = sent.value]
        ELSE IF sent.layout = "pair" /\ cs[k].seq = sent.seq2
        THEN [cs[k] EXCEPT !.reply = sent.value]
        ELSE cs[k]]

\* The socket's 'data' event with the bytes of one read: handleData, then
\* handlePayload.  in.sent is what the device put in them.
Receive(in) ==
    /\ pushes' = IF IsPush(in.sent) THEN pushes + 1 ELSE pushes
    /\ IF ~in.r.deliver
       THEN /\ calls' = NoteReply(calls, in.sent)
            /\ UNCHANGED << emitted, motionTimers >>
       ELSE LET noted == NoteReply(calls, in.sent)
                hp == handlePayload(noted, in.r.command, in.r.sequence, in.r.payload)
            IN  /\ calls' = [k \in DOMAIN calls |->
                               IF calls[k].state = "pending" /\ hp.calls[k].state = "resolved"
                               THEN [hp.calls[k] EXCEPT !.frameSeq = in.r.sequence,
                                                        !.frameValue = in.sent.value]
                               ELSE hp.calls[k]]
                /\ IF hp.motion
                   THEN /\ emitted' = Append(emitted, TRUE)
                        /\ motionTimers' = Append(motionTimers, MOTION_CLEAR_DELAY)
                   ELSE UNCHANGED << emitted, motionTimers >>
    /\ UNCHANGED << ip, connected, socket, sequence, heartbeatInterval, sockets,
                    intervals, written >>

\* A 'data' event of socket s with one of the given reads.
SocketData(s, reads) ==
    /\ sockets[s].state = "open"
    /\ \E in \in reads :
         /\ IsPush(in.sent) => pushes < MaxPushes
         /\ Receive(in)

\* A getMotionStatus without its try and catch: what getMotionStatus is not.
\* C20_MotionStatus tells the two apart.
getMotionStatusUncaught(call) ==
    IF call.state = "rejected"
    THEN [threw |-> TRUE, value |-> FALSE]
    ELSE LET status == call.response
         IN  [threw |-> FALSE,
              value |-> /\ ~status.isNull
                        /\ status.hasDps
                        /\ \E m \in status.dps : m[1] = DP_MOTION_SWITCH /\ m[2] = "true"]

\* TuyaDevice.getMotionStatus on its settled getStatus() call: false from the
\* catch when the call was rejected, else status?.dps?.[MOTION_SWITCH] || false.
\* threw says that getMotionStatus itself rejects.
getMotionStatus(call) ==
    IF call.state = "rejected"
    THEN [threw |-> FALSE, value |-> FALSE]
    ELSE LET status == call.response
         IN  [threw |-> FALSE,
              value |-> /\ ~status.isNull
                        /\ status.hasDps
                        /\ \E m \in status.dps : m[1] = DP_MOTION_SWITCH /\ m[2] = "true"]

\* The offset at which the device cuts a frame that it sends in two reads.
ControlCut == 24

\* A reply of the device segmented otherwise than one frame per read: two
\* frames in one read ("pair"), or the head and the tail of one frame in
\* two reads.
Segmented ==
    { [layout |-> "pair", command |-> CMD_DP_QUERY, seq |-> q, seq2 |-> q + 1,
       value |-> StatusReply,
       chunk |-> DeviceFrame(CMD_DP_QUERY, q, StatusReply)
                   \o DeviceFrame(CMD_DP_QUERY, q + 1, StatusReply)] :
          q \in 1..(MaxCalls - 1) }
      \cup
    { [layout |-> "head", command |-> CMD_DP_QUERY, seq |-> q, value |-> StatusReply,
       chunk |-> Slice(DeviceFrame(CMD_DP_QUERY, q, StatusReply), 0, ControlCut)] :
          q \in 1..MaxCalls }
      \cup
    { [layout |-> "tail", command |-> CMD_DP_QUERY, seq |-> q, value |-> StatusReply,
       chunk |-> Slice(DeviceFrame(CMD_DP_QUERY, q, StatusReply), ControlCut,
                       Len(DeviceFrame(CMD_DP_QUERY, q, StatusReply)))] :
          q \in 1..MaxCalls }

\* handleData on each of them.
Segments == { [sent |-> f, r |-> handleData(f.chunk)] : f \in Segmented }

\* A command with the given sequence awaits its response.
Awaited(seq) == \E k \in DOMAIN calls : calls[k].state = "pending" /\ calls[k].seq = seq

\* A 'data' event of socket s with a reply or a segment of one: the device
\* segments the replies to commands that await them, and the tail of a frame
\* comes in the read after its head.
SocketSegment(s) ==
    /\ sockets[s].state = "open"
    /\ \E in \in Replies \cup Segments :
         /\ (in.sent.layout = "head") => Awaited(in.sent.seq)
         /\ (in.sent.layout = "pair") => Awaited(in.sent.seq2)
         /\ (lastChunk.kind = "head") <=> (in.sent.layout = "tail")
         /\ (in.sent.layout = "tail") => (in.sent.seq = lastChunk.seq)
         /\ Receive(in)
         /\ lastChunk' = IF in.sent.layout = "head"
                         THEN [kind |-> "head", seq |-> in.sent.seq]
                         ELSE [kind |-> "none", seq |-> 0]

\* Bytes that handleData reads as a frame with the given bytes as its
\* encrypted payload.
RawFrame(command, seq, encrypted) ==
    HEADER \o << 0, 0, 0, 0 >> \o WriteUInt32BE(command) \o WriteUInt32BE(seq)
      \o WriteUInt32BE(Len(encrypted) + SUFFIX_LEN) \o encrypted
      \o << 0, 0, 0, 0 >> \o FOOTER

\* Reads that are no frame handleData can use, each made from a status push
\* with sequence 1: its first 12 bytes ("short"), the push behind bytes that
\* are not the magic header ("magic"), its first 24 bytes ("incomplete"), a
\* payload encrypted with another key ("decrypt"), and the encrypted text {
\* that is no JSON ("json").
BadKinds == { "short", "magic", "incomplete", "decrypt", "json" }

BadChunk(kind) ==
    LET push == DeviceFrame(CMD_STATUS, 1, MotionPush)
    IN  IF kind = "short" THEN Slice(push, 0, 12)
        ELSE IF kind = "magic" THEN Garbage \o push
        ELSE IF kind = "incomplete" THEN Slice(push, 0, ControlCut)
        ELSE IF kind = "decrypt"
        THEN RawFrame(CMD_STATUS, 1, Encrypt(localKey + 1, JsonTextOf(MotionPush)))
        ELSE RawFrame(CMD_STATUS, 1, Encrypt(localKey, << 123 >>))

\* handleData on each of them.
BadReads ==
    { [sent |-> [layout |-> "none", kind |-> kind, command |-> 0, seq |-> -1,
                 value |-> JsonNull, chunk |-> BadChunk(kind)],
       r    |-> handleData(BadChunk(kind))] : kind \in BadKinds }

\* A 'data' event of socket s with a reply or with bytes that are no frame;
\* the kind of the read is noted.
SocketChunk(s) ==
    /\ sockets[s].state = "open"
    /\ \/ \E in \in Replies :
            /\ Receive(in)
            /\ lastChunk' = [kind |-> "frame", seq |-> 0]
       \/ \E in \in BadReads :
            /\ Receive(in)
            /\ lastChunk' = [kind |-> in.sent.kind, seq |-> 0]

\* getStatus(), startStream() and controlPTZ('up'): each one sendCommand.
Operations ==
    { [command |-> CMD_DP_QUERY, payload |-> StatusQuery],
      [command |-> CMD_STREAM,   payload |-> StreamOn],
      [command |-> CMD_CONTROL,  payload |-> PtzUp] }

Send(command, payload) ==
    LET r == sendCommand(command, payload)
    IN  /\ sequence' = r.sequence
        /\ written' = r.written
        /\ calls' = r.calls

SendCommand ==
    /\ Len(calls) < MaxCalls
    /\ \E op \in Operations : Send(op.command, op.payload)
    /\ UNCHANGED << ip, connected, socket, heartbeatInterval, sockets, intervals,
                    motionTimers, emitted, pushes >>

\* A heartbeat timer that is not armed again when its heartbeat is refused:
\* what the timer of startHeartbeat is not.  C19_HeartbeatFailureHarmless tells
\* the two apart.
HeartbeatTickFragile(i) ==
    /\ intervals[i] = 0
    /\ Len(calls) < MaxCalls
    /\ intervals' = [intervals EXCEPT ![i] = IF CanSend THEN HEARTBEAT_INTERVAL
                                              ELSE Unarmed]
    /\ Send(CMD_HEARTBEAT, HeartbeatPayload)
    /\ UNCHANGED << ip, connected, socket, heartbeatInterval, sockets,
                    motionTimers, emitted, pushes >>

\* One round of the setInterval timer startHeartbeat created: the timer stays
\* armed, and a failure of the heartbeat is only logged.
HeartbeatTick(i) ==
    /\ intervals[i] = 0
    /\ Len(calls) < MaxCalls
    /\ intervals' = [intervals EXCEPT ![i] = HEARTBEAT_INTERVAL]
    /\ Send(CMD_HEARTBEAT, HeartbeatPayload)
    /\ UNCHANGED << ip, connected, socket, heartbeatInterval, sockets,
                    motionTimers, emitted, pushes >>

\* The setTimeout of sendCommand fires: reject(new Error('Command timeout')).
OnCommandTimeout(call) ==
    [Reject(call, "Command timeout") EXCEPT !.timer = Unarmed]

CommandTimeout(k) ==
    /\ calls[k].timer = 0
    /\ calls' = [calls EXCEPT ![k] = OnCommandTimeout(@)]
    /\ UNCHANGED << ip, connected, socket, sequence, heartbeatInterval, sockets,
                    intervals, written, motionTimers, emitted, pushes >>

\* The setTimeout of handlePayload fires: this.emit('motion', false).
MotionClear(j) ==
    /\ motionTimers[j] = 0
    /\ motionTimers' = [motionTimers EXCEPT ![j] = Unarmed]
    /\ emitted' = Append(emitted, FALSE)
    /\ UNCHANGED << ip, connected, socket, sequence, heartbeatInterval, sockets,
                    intervals, calls, written, pushes >>

\* One step of time passes: no timer is due.
Tick ==
    /\ \A s \in Sock : sockets[s].idle # 0 /\ intervals[s] # 0
    /\ \A k \in DOMAIN calls : calls[k].timer # 0
    /\ \A j \in DOMAIN motionTimers : motionTimers[j] # 0
    /\ sockets' = [s \in Sock |-> [sockets[s] EXCEPT !.idle = Dec(@)]]
    /\ intervals' = [s \in Sock |-> Dec(intervals[s])]
    /\ calls' = [k \in DOMAIN calls |-> [calls[k] EXCEPT !.timer = Dec(@)]]
    /\ motionTimers' = [j \in DOMAIN motionTimers |-> Dec(motionTimers[j])]
    /\ UNCHANGED << ip, connected, socket, sequence, heartbeatInterval, written,
                    emitted, pushes >>

(***************************************************************************)
(* The packet codec on its own: buildPacket, then the fields handleData     *)
(* reads from the packet.                                                   *)
(***************************************************************************)
CodecCommands == { CMD_CONTROL, CMD_STATUS, CMD_HEARTBEAT, CMD_DP_QUERY, CMD_STREAM }
CodecPayloads ==
    { <<>>, << 1, 2, 3 >>, [i \in 1..16 |-> 40 + i], [i \in 1..32 |-> 7] }

CodecIdle ==
    /\ codecIn = [command |-> 0, sequence |-> 0, payload |-> <<>>]
    /\ codecPacket = <<>>
    /\ codecOut = [done |-> FALSE]

CodecInit ==
    /\ codecIn \in [command : CodecCommands, sequence : 0..MaxCodecSeq,
                    payload : CodecPayloads]
    /\ codecPacket = <<>>
    /\ codecOut = [done |-> FALSE]

CodecEncode ==
    /\ codecPacket = <<>>
    /\ codecPacket' = buildPacket(codecIn.sequence, codecIn.command, codecIn.payload).packet
    /\ UNCHANGED << codecIn, codecOut >>

CodecParse ==
    /\ codecPacket # <<>>
    /\ ~codecOut.done
    /\ codecOut' = [done |-> TRUE] @@ ParseFrame(codecPacket)
    /\ UNCHANGED << codecIn, codecPacket >>

(***************************************************************************)
(* The stream connection: class TuyaStreamDecoder.                         *)
(***************************************************************************)
CMD_STREAM_START == 208
CMD_STREAM_DATA == 209
CMD_STREAM_STOP == 210

\* Bounds: frames the device sends on the stream connection, and stop()
\* calls that write their command.
MaxStreamFrames == 2
MaxStops == 1

\* c >>> 8
WordShr8(w) == << 0, w[1], w[2], w[3] >>

\* TuyaStreamDecoder.getCRCTable: entry i is i after eight shifts.
getCRCTable == [i \in Byte |-> CrcShift(<< 0, 0, 0, i >>, 8)]

\* The loop of calculateCRC32: crc = (crc >>> 8) ^ table[(crc ^ data[i]) & 0xFF].
RECURSIVE Crc32Loop(_, _)
Crc32Loop(data, st) ==
    IF st.k > Len(data) THEN st.crc
    ELSE Crc32Loop(data, [k   |-> st.k + 1,
                          crc |-> WordXor(WordShr8(st.crc),
                                          getCRCTable[BitXor(st.crc[4], data[st.k])])])

\* calculateCRC32 without the final complement: what calculateCRC32 is not.
calculateCRC32Raw(data) ==
    Crc32Loop(data, [k |-> 1, crc |-> CRC_INIT])

\* TuyaStreamDecoder.calculateCRC32: ~crc >>> 0, written big-endian.
calculateCRC32(data) ==
    LET crc == Crc32Loop(data, [k |-> 1, crc |-> CRC_INIT])
    IN  << 255 - crc[1], 255 - crc[2], 255 - crc[3], 255 - crc[4] >>

\* The bytes TuyaStreamDecoder.buildPacket lays out for a sequence value seq.
StreamPacketBytes(command, seq, payload) ==
    LET crcData == HEADER \o WriteUInt32BE(command) \o WriteUInt32BE(seq)
                     \o WriteUInt32BE(Len(payload) + SUFFIX_LEN) \o payload
    IN  crcData \o calculateCRC32(crcData) \o FOOTER

\* Date.now() & 0xFFFFFFFF is a signed 32-bit value: the values the model
\* tries, -1 standing for the negative ones.
StreamClock == { 1, CMD_STREAM_DATA, -1 }

\* TuyaStreamDecoder.buildPacket: seq.writeUInt32BE(now) throws a RangeError
\* on a negative value.
streamBuildPacket(command, now, payload) ==
    IF now < 0
    THEN [threw |-> TRUE, command |-> command, sequence |-> now]
    ELSE [threw |-> FALSE, command |-> command, sequence |-> now]

\* crypto.createHash('md5').update(localKey + 'stream').digest(): a key that
\* is derived from the local key and differs from it.
Md5Stream(key) == (key * 31 + 17) % 256

\* this.sessionKey || Buffer.from(this.localKey, 'utf8')
StreamKey(skey) == IF skey # 0 THEN skey ELSE localKey

\* TuyaStreamDecoder.decryptPayload: the bytes are returned as they are when
\* decryption throws.
decryptPayload(skey, data) ==
    LET d == Decrypt(StreamKey(skey), data)
    IN  IF d.ok THEN d.data ELSE data

\* Buffer.indexOf(HEADER, from): the offset of the first occurrence at or
\* after from, -1 when there is none.
IndexOfHeader(buf, from) ==
    LET hits == { i \in from..(Len(buf) - 4) : SubSeq(buf, i + 1, i + 4) = HEADER }
    IN  IF hits = {} THEN -1 ELSE CHOOSE i \in hits : \A j \in hits : i <= j

\* The while loop of handleStreamData.  st.buf is this.frameBuffer, st.packets
\* the packets cut from it so far (command and the bytes at 20..20+len-8),
\* st.events the videoData events emitted so far; st.threw says that a
\* readUInt32BE read past the end of the buffer (RangeError), st.done that the
\* loop was left.  20 + payloadLen is compared as payloadLen against
\* length - 20.
RECURSIVE ScanLoop(_, _)
ScanLoop(skey, st) ==
    IF st.done \/ Len(st.buf) < MIN_PACKET THEN st
    ELSE LET headerIndex == IndexOfHeader(st.buf, 1)
             aligned == StartsWithHeader(st.buf)
             buf == IF aligned THEN st.buf
                    ELSE Slice(st.buf, headerIndex, Len(st.buf))
         IN  IF ~aligned /\ headerIndex <= 0
             THEN [st EXCEPT !.buf = <<>>, !.done = TRUE]
             ELSE IF Len(buf) < MIN_PACKET
             THEN [st EXCEPT !.buf = buf, !.threw = TRUE, !.done = TRUE]
             ELSE LET command    == ReadUInt32BE(buf, 8)
                      payloadLen == ReadUInt32BE(buf, 16)
                      encryptedData ==
                          Slice(buf, MIN_PACKET, MIN_PACKET + payloadLen - SUFFIX_LEN)
                  IN  IF Len(buf) - MIN_PACKET < payloadLen
                      THEN [st EXCEPT !.buf = buf, !.done = TRUE]
                      ELSE ScanLoop(skey,
                             [buf     |-> Slice(buf, MIN_PACKET + payloadLen, Len(buf)),
                              packets |-> Append(st.packets,
                                                 [command |-> command,
                                                  payload |-> encryptedData]),
                              events  |-> IF command = CMD_STREAM_DATA
                                          THEN Append(st.events,
                                                      decryptPayload(skey, encryptedData))
                                          ELSE st.events,
                              threw   |-> FALSE,
                              done    |-> FALSE])

\* TuyaStreamDecoder.handleStreamData: the chunk is appended to the buffer,
\* then the buffer is scanned.
handleStreamData(skey, buffer, data) ==
    ScanLoop(skey, [buf |-> buffer \o data, packets |-> <<>>, events |-> <<>>,
                    threw |-> FALSE, done |-> FALSE])

\* The video unit of the model (a NAL unit behind its start code) and what the
\* device puts in a stream-data frame: the unit encrypted with the session
\* key, or the unit as it is.
VideoUnit == << 0, 0, 0, 1, 101, 102 >>
StreamPayloads == { Encrypt(Md5Stream(localKey), VideoUnit), VideoUnit }

\* Bytes that handleStreamData reads as a frame of the given command and
\* payload: the magic header, four bytes it never reads, the command, four
\* bytes it never reads (the sequence), the length, the payload, and eight
\* trailing bytes it never reads.
StreamReadFrame(command, seq, payload) ==
    HEADER \o << 0, 0, 0, 0 >> \o WriteUInt32BE(command) \o WriteUInt32BE(seq)
      \o WriteUInt32BE(Len(payload) + SUFFIX_LEN) \o payload
      \o << 0, 0, 0, 0 >> \o FOOTER

\* The frames the device sends on the stream connection, laid out as
\* buildPacket lays a frame out ("codec") or as handleStreamData reads one
\* ("read").
StreamFrames ==
    { [layout |-> "codec", command |-> c, seq |-> q, payload |-> p,
       bytes |-> StreamPacketBytes(c, q, p)] :
          c \in { CMD_STREAM_START, CMD_STREAM_DATA }, q \in { 1, CMD_STREAM_DATA },
          p \in StreamPayloads }
      \cup
    { [layout |-> "read", command |-> c, seq |-> 1, payload |-> p,
       bytes |-> StreamReadFrame(c, 1, p)] :
          c \in { CMD_STREAM_START, CMD_STREAM_DATA }, p \in StreamPayloads }

\* The frames in the layout handleStreamData reads.
StreamReadFrames == { f \in StreamFrames : f.layout = "read" }

\* The offsets at which the device cuts a frame that it sends in two reads.
StreamCuts == { 12, 24 }

NoRest == [frame |-> [layout |-> "none"], bytes |-> <<>>]

\* The record of a frame the device has sent: garbled says that bytes that
\* are no frame went before it, split that it came in two reads.
SentFrame(f, garbled, split) ==
    [layout |-> f.layout, command |-> f.command, seq |-> f.seq,
     payload |-> f.payload, bytes |-> f.bytes, garbled |-> garbled, split |-> split]

StreamInit ==
    /\ streamSocket = "none"
    /\ sessionKey = 0
    /\ frameBuffer = <<>>
    /\ videoData = <<>>
    /\ packets = <<>>
    /\ keysUsed = {}
    /\ streamWritten = <<>>
    /\ stopArmed = FALSE
    /\ streamFault = FALSE
    /\ streamSent = <<>>
    /\ deviceRest = NoRest

\* startStream(): a new socket that connects.  The decoder is started once.
StartStream ==
    /\ streamSocket = "none"
    /\ streamSocket' = "connecting"
    /\ UNCHANGED << sessionKey, frameBuffer, videoData, packets, keysUsed,
                    streamWritten, stopArmed, streamFault, streamSent, deviceRest >>

\* encryptPayload, then buildPacket and socket.write: the key used is noted,
\* and the command is written unless buildPacket throws.
StreamSend(skey, command, now) ==
    /\ keysUsed' = keysUsed \cup { [op |-> "encrypt", command |-> command,
                                    key |-> StreamKey(skey)] }
    /\ streamWritten' = IF streamBuildPacket(command, now, <<>>).threw
                        THEN streamWritten
                        ELSE Append(streamWritten, [command |-> command,
                                                    sequence |-> now,
                                                    key |-> StreamKey(skey)])

\* The socket's 'connect' event: sendStreamRequest derives the session key
\* and writes the stream-start command.
StreamConnect ==
    /\ streamSocket = "connecting"
    /\ ~streamFault
    /\ streamSocket' = "open"
    /\ sessionKey' = Md5Stream(localKey)
    /\ \E now \in StreamClock : StreamSend(Md5Stream(localKey), CMD_STREAM_START, now)
    /\ UNCHANGED << frameBuffer, videoData, packets, stopArmed, streamFault,
                    streamSent, deviceRest >>

\* The socket's 'data' event with the bytes of one read.
OnStreamData(chunk) ==
    LET r == handleStreamData(sessionKey, frameBuffer, chunk)
    IN  /\ frameBuffer' = r.buf
        /\ packets' = packets \o r.packets
        /\ videoData' = videoData \o r.events
        /\ streamFault' = r.threw
        /\ keysUsed' = IF r.events = <<>> THEN keysUsed
                       ELSE keysUsed \cup { [op |-> "decrypt",
                                             command |-> CMD_STREAM_DATA,
                                             key |-> StreamKey(sessionKey)] }

CanReceive ==
    /\ streamSocket = "open"
    /\ ~streamFault

\* The device sends a whole frame in one read, after bytes that are no frame
\* when garbled.
DeviceSend(frames) ==
    /\ CanReceive
    /\ deviceRest = NoRest
    /\ Len(streamSent) < MaxStreamFrames
    /\ \E f \in frames, garbled \in BOOLEAN :
         /\ OnStreamData((IF garbled THEN Garbage ELSE <<>>) \o f.bytes)
         /\ streamSent' = Append(streamSent, SentFrame(f, garbled, FALSE))
    /\ UNCHANGED << streamSocket, sessionKey, streamWritten, stopArmed, deviceRest >>

\* The device sends the head of a frame in one read.
DeviceSendHead(frames) ==
    /\ CanReceive
    /\ deviceRest = NoRest
    /\ Len(streamSent) < MaxStreamFrames
    /\ \E f \in frames, cut \in StreamCuts :
         /\ OnStreamData(Slice(f.bytes, 0, cut))
         /\ deviceRest' = [frame |-> SentFrame(f, FALSE, TRUE),
                           bytes |-> Slice(f.bytes, cut, Len(f.bytes))]
    /\ UNCHANGED << streamSocket, sessionKey, streamWritten, stopArmed, streamSent >>

\* The offsets at which the device cuts a frame whose head it sends behind
\* bytes that are no frame.
GarbledCuts == { 12, 18, 24 }

\* The device sends bytes that are no frame and the head of a frame in one
\* read.
DeviceSendGarbledHead(frames) ==
    /\ CanReceive
    /\ deviceRest = NoRest
    /\ Len(streamSent) < MaxStreamFrames
    /\ \E f \in frames, cut \in GarbledCuts :
         /\ OnStreamData(Garbage \o Slice(f.bytes, 0, cut))
         /\ deviceRest' = [frame |-> SentFrame(f, TRUE, TRUE),
                           bytes |-> Slice(f.bytes, cut, Len(f.bytes))]
    /\ UNCHANGED << streamSocket, sessionKey, streamWritten, stopArmed, streamSent >>

\* The device sends the rest of the frame in the next read.
DeviceSendTail ==
    /\ CanReceive
    /\ deviceRest # NoRest
    /\ OnStreamData(deviceRest.bytes)
    /\ streamSent' = Append(streamSent, deviceRest.frame)
    /\ deviceRest' = NoRest
    /\ UNCHANGED << streamSocket, sessionKey, streamWritten, stopArmed >>

\* The socket's 'error' or 'close' event: the socket is closed; this.socket
\* keeps holding it.
StreamClose ==
    /\ streamSocket \in { "connecting", "open" }
    /\ streamSocket' = "closed"
    /\ UNCHANGED << sessionKey, frameBuffer, videoData, packets, keysUsed,
                    streamWritten, stopArmed, streamFault, streamSent, deviceRest >>

\* stop(): with a socket, the stream-stop command is encrypted, built and
\* written, and the timer that destroys the socket is armed; a throw of
\* buildPacket leaves stop() before the timer is armed.
StreamStop ==
    /\ streamSocket # "none"
    /\ ~streamFault
    /\ Len(SelectSeq(streamWritten, LAMBDA w : w.command = CMD_STREAM_STOP)) < MaxStops
    /\ \E now \in StreamClock :
         /\ StreamSend(sessionKey, CMD_STREAM_STOP, now)
         /\ stopArmed' = (stopArmed \/ now >= 0)
    /\ UNCHANGED << streamSocket, sessionKey, frameBuffer, videoData, packets,
                    streamFault, streamSent, deviceRest >>

\* The timer of stop() fires: this.socket?.destroy(); this.socket keeps
\* holding the socket.
StreamDestroy ==
    /\ stopArmed
    /\ stopArmed' = FALSE
    /\ streamSocket' = "destroyed"
    /\ UNCHANGED << sessionKey, frameBuffer, videoData, packets, keysUsed,
                    streamWritten, streamFault, streamSent, deviceRest >>

(***************************************************************************)
(* The media pipe: the 'videoData' listener of getStreamSource.            *)
(***************************************************************************)
\* Bound: the videoData events the listener receives.
MaxUnits == 3

\* Buffer.from([0, 0, 0, 1])
START_CODE == << 0, 0, 0, 1 >>

\* The buffers the listener writes for one event, in order:
\* always the start code first.
videoDataWritesAlways(data) ==
    << [kind |-> "code", bytes |-> START_CODE], [kind |-> "unit", bytes |-> data] >>

\* The buffers the listener writes for one event, in order:
\* !data.slice(0, 4).equals(START_CODE) decides whether the start code is
\* written before the unit.
videoDataWrites(data) ==
    IF Slice(data, 0, 4) # START_CODE
    THEN << [kind |-> "code", bytes |-> START_CODE], [kind |-> "unit", bytes |-> data] >>
    ELSE << [kind |-> "unit", bytes |-> data] >>

\* The units the decoder emits: behind the start code, behind a three-byte
\* start code, bare, shorter than a start code, empty, the start code alone.
PipeUnits ==
    { << 0, 0, 0, 1, 101 >>, << 0, 0, 1, 101 >>, << 101, 102, 103, 104, 105 >>,
      << 0, 0, 0 >>, << >>, START_CODE }

PipeInit ==
    /\ unitsEmitted = << >>
    /\ videoInput = << >>

\* decoder.on('videoData', ...): the listener runs with the event's buffer.
OnVideoData(data) ==
    /\ Len(unitsEmitted) < MaxUnits
    /\ unitsEmitted' = Append(unitsEmitted, data)
    /\ videoInput' = videoInput \o videoDataWrites(data)

(***************************************************************************)
(* Discovery: TuyaDevice.discoverIP, started by the constructor, and the   *)
(* connect() call of the accessory's constructor.                          *)
(***************************************************************************)
\* Bound: the datagrams that reach the discovery socket.
MaxDatagrams == 3

DISCOVER_TIMEOUT == 5

\* A datagram: whether its text contains the device id, and its source.
Datagrams == [hasId : BOOLEAN, address : { DEVICE_IP, OTHER_IP }]

\* The constructor of TuyaDevice calls discoverIP() when no address is given;
\* the constructor of the accessory has yet to call connect().
DiscInit ==
    /\ constructing = TRUE
    /\ discovery = IF ip = 0 THEN "pending" ELSE "idle"
    /\ discTimer = IF ip = 0 THEN DISCOVER_TIMEOUT ELSE Unarmed
    /\ datagrams = << >>

(***************************************************************************)
(* Twins: the same frames with other bytes in place of the checksum and    *)
(* the footer, read by handleData and by a second TuyaStreamDecoder.       *)
(***************************************************************************)
\* The eight bytes put in place of the checksum and the footer: the magic
\* header as the checksum, and zeros for both.
Trailers == { HEADER \o FOOTER, << 0, 0, 0, 0, 0, 0, 0, 0 >> }

\* The frame with its last eight bytes, checksum and footer, replaced.
WithTrailer(bytes, trailer) == Slice(bytes, 0, Len(bytes) - SUFFIX_LEN) \o trailer

\* No read is noted.
NoRead == [deliver |-> FALSE, command |-> 0, sequence |-> 0, payload |-> JsonNull]

TwinInit ==
    /\ twinRead = [frame |-> NoRead, twin |-> NoRead]
    /\ twinBuffer = << >>
    /\ twinVideo = << >>
    /\ twinPackets = << >>
    /\ twinFault = FALSE

\* The frames of the device on the control connection, and handleData on
\* each of their twins.
InboundFrames == { in \in Handled : in.sent.layout # "none" }
TwinHandled ==
    [in \in InboundFrames, t \in Trailers |-> handleData(WithTrailer(in.sent.chunk, t))]

\* A 'data' event of socket s with a frame of the device; what handleData
\* makes of the frame and of one of its twins is noted.
TwinSocketData(s) ==
    /\ sockets[s].state = "open"
    /\ \E in \in InboundFrames, t \in Trailers :
         /\ IsPush(in.sent) => pushes < MaxPushes
         /\ Receive(in)
         /\ twinRead' = [frame |-> in.r, twin |-> TwinHandled[in, t]]
    /\ UNCHANGED << twinBuffer, twinVideo, twinPackets, twinFault >>

\* The device sends a whole frame in one read to the decoder, and one of its
\* twins to the twin decoder.
TwinDeviceSend(frames) ==
    /\ CanReceive
    /\ ~twinFault
    /\ deviceRest = NoRest
    /\ Len(streamSent) < MaxStreamFrames
    /\ \E f \in frames, t \in Trailers :
         LET r == handleStreamData(sessionKey, twinBuffer, WithTrailer(f.bytes, t))
         IN  /\ OnStreamData(f.bytes)
             /\ streamSent' = Append(streamSent, SentFrame(f, FALSE, FALSE))
             /\ twinBuffer' = r.buf
             /\ twinPackets' = twinPackets \o r.packets
             /\ twinVideo' = twinVideo \o r.events
             /\ twinFault' = r.threw
    /\ UNCHANGED << streamSocket, sessionKey, streamWritten, stopArmed, deviceRest,
                    twinRead >>

(***************************************************************************)
(* The checksum check: both checksum functions on the same bytes.          *)
(***************************************************************************)
\* Bound: the length of the byte sequences drawn from CrcBytes.
MaxCrcLen == 3

\* The bytes the longer sequences are made of.
CrcBytes == { 0, 1, 85, 128, 255 }

RECURSIVE SeqsUpTo(_, _)
SeqsUpTo(S, n) ==
    IF n = 0 THEN { << >> }
    ELSE LET shorter == SeqsUpTo(S, n - 1)
         IN  shorter \cup { Append(q, x) : q \in shorter, x \in S }

\* The text "123456789", the usual check input of a CRC.
CheckText == << 49, 50, 51, 52, 53, 54, 55, 56, 57 >>

\* The inputs: every single byte, the sequences over CrcBytes, the check
\* text, and a packet as buildPacket sums it.
CrcInputs ==
    { << b >> : b \in Byte } \cup SeqsUpTo(CrcBytes, MaxCrcLen)
      \cup { CheckText,
             HEADER \o WriteUInt32BE(CMD_HEARTBEAT) \o WriteUInt32BE(1)
               \o WriteUInt32BE(SUFFIX_LEN) }

\* The reflected CRC-32 bit by bit: the register is shifted right once per
\* input bit, lowest bit first, and the polynomial is added when the bit
\* shifted out differs from the input bit.
RECURSIVE Crc32Bits(_, _)
Crc32Bits(data, st) ==
    IF st.k > Len(data) THEN st.crc
    ELSE LET bit == (data[st.k] \div (2 ^ st.i)) % 2
             out == st.crc[4] % 2
             shifted == WordShr1(st.crc)
         IN  Crc32Bits(data,
                       [k   |-> IF st.i = 7 THEN st.k + 1 ELSE st.k,
                        i   |-> IF st.i = 7 THEN 0 ELSE st.i + 1,
                        crc |-> IF bit # out THEN WordXor(shifted, CRC_POLY)
                                ELSE shifted])

\* CRC-32 with polynomial 0xEDB88320, initial value 0xFFFFFFFF and final XOR
\* 0xFFFFFFFF, most significant byte first.
Crc32Reference(data) ==
    LET crc == Crc32Bits(data, [k |-> 1, i |-> 0, crc |-> CRC_INIT])
    IN  WordXor(crc, << 255, 255, 255, 255 >>)

\* No checksum is being checked.
CrcIdle ==
    /\ crcIn = << >>
    /\ crcOut = [done |-> FALSE]

CrcInit ==
    /\ crcIn \in CrcInputs
    /\ crcOut = [done |-> FALSE]

\* Both functions are applied to the bytes.
CrcApply ==
    /\ ~crcOut.done
    /\ crcOut' = [done |-> TRUE, control |-> calculateCRC(crcIn),
                  stream |-> calculateCRC32(crcIn)]
    /\ UNCHANGED crcIn

(***************************************************************************)
(* The dwell time of the motion event.                                     *)
(***************************************************************************)
\* Bound: the motion pushes the device sends where the dwell time is
\* measured.
MaxDwellPushes == 2

\* No 'motion' true event has been emitted: the dwell time counts as over.
DwellInit == sinceMotion = MOTION_CLEAR_DELAY

\* The status pushes with the motion-detected data point, laid out as
\* handleData reads them.
MotionPushes ==
    { in \in Handled : in.sent.layout = "read" /\ IsPush(in.sent) /\ in.sent.seq = 0 }

\* A 'data' event of socket s with a motion push: handlePayload emits
\* 'motion' true and arms a timer of its own.
SocketPush(s) ==
    /\ sockets[s].state = "open"
    /\ pushes < MaxDwellPushes
    /\ \E in \in MotionPushes : Receive(in)
    /\ sinceMotion' = 0

\* One step of time passes; the time since the last 'motion' true event is
\* counted up to the dwell time.
DwellTick ==
    /\ Tick
    /\ sinceMotion' = IF sinceMotion + Step > MOTION_CLEAR_DELAY
                      THEN MOTION_CLEAR_DELAY ELSE sinceMotion + Step

(***************************************************************************)
(* The scan of the stream frame-buffer, iteration by iteration.            *)
(***************************************************************************)
\* Bound: the handleStreamData calls whose loop is followed.
MaxScanCalls == 2

\* The re-synchronisation that leaves the buffer as it is when no later
\* header is found: what lines 103-112 are not.
ResyncKeeps(buf) ==
    LET headerIndex == IndexOfHeader(buf, 1)
    IN  IF StartsWithHeader(buf) THEN [buf |-> buf, stop |-> FALSE]
        ELSE IF headerIndex > 0
        THEN [buf |-> Slice(buf, headerIndex, Len(buf)), stop |-> FALSE]
        ELSE [buf |-> buf, stop |-> TRUE]

\* Lines 103-112 of handleStreamData: a buffer that does not begin with the
\* header is cut to the next header behind offset 0, or emptied, which ends
\* the loop, when there is none.
Resync(buf) ==
    LET headerIndex == IndexOfHeader(buf, 1)
    IN  IF StartsWithHeader(buf) THEN [buf |-> buf, stop |-> FALSE]
        ELSE IF headerIndex > 0
        THEN [buf |-> Slice(buf, headerIndex, Len(buf)), stop |-> FALSE]
        ELSE [buf |-> << >>, stop |-> TRUE]

\* The loop body that cuts the payload without the 20 bytes before it: what
\* the body is not.
ScanStepPayloadOnly(buf) ==
    LET r == Resync(buf)
    IN  IF r.stop THEN [buf |-> r.buf, threw |-> FALSE, done |-> TRUE]
        ELSE IF Len(r.buf) < MIN_PACKET
        THEN [buf |-> r.buf, threw |-> TRUE, done |-> TRUE]
        ELSE LET payloadLen == ReadUInt32BE(r.buf, 16)
             IN  IF Len(r.buf) - MIN_PACKET < payloadLen
                 THEN [buf |-> r.buf, threw |-> FALSE, done |-> TRUE]
                 ELSE [buf   |-> Slice(r.buf, payloadLen, Len(r.buf)),
                       threw |-> FALSE, done |-> FALSE]

\* One iteration of the while loop of handleStreamData on a buffer of 20
\* bytes or more: the buffer it leaves, whether readUInt32BE threw, and
\* whether the loop was left (break or throw).  20 + payloadLen is compared
\* as payloadLen against length - 20.
ScanStep(buf) ==
    LET r == Resync(buf)
    IN  IF r.stop THEN [buf |-> r.buf, threw |-> FALSE, done |-> TRUE]
        ELSE IF Len(r.buf) < MIN_PACKET
        THEN [buf |-> r.buf, threw |-> TRUE, done |-> TRUE]
        ELSE LET payloadLen == ReadUInt32BE(r.buf, 16)
             IN  IF Len(r.buf) - MIN_PACKET < payloadLen
                 THEN [buf |-> r.buf, threw |-> FALSE, done |-> TRUE]
                 ELSE [buf   |-> Slice(r.buf, MIN_PACKET + payloadLen, Len(r.buf)),
                       threw |-> FALSE, done |-> FALSE]

\* Bytes that handleStreamData reads as a stream-data frame whose length
\* field is len, followed by len bytes: with len below 8 there is no room for
\* the checksum and the footer.
ScanFrame(len) ==
    HEADER \o << 0, 0, 0, 0 >> \o WriteUInt32BE(CMD_STREAM_DATA) \o WriteUInt32BE(1)
      \o WriteUInt32BE(len) \o [i \in 1..len |-> 100 + i]

\* What the device sends in one go: bytes that are no frame, frames with the
\* length fields 0, 4 and 14, the first 18 bytes of a frame and the 16 bytes
\* behind them, and frames as buildPacket lays them out.
ScanPieces ==
    { Garbage, ScanFrame(0), ScanFrame(4), ScanFrame(14), Slice(ScanFrame(14), 0, 18),
      Slice(ScanFrame(14), 18, 34) }
      \cup { StreamPacketBytes(CMD_STREAM_DATA, 1, p) : p \in StreamPayloads }

\* The reads: one piece, or two pieces.
ScanChunks == ScanPieces \cup { a \o b : a, b \in ScanPieces }

\* No call has been made: the buffer is empty.
ScanInit ==
    /\ scanCall = [buffer |-> << >>, data |-> << >>, n |-> 0]
    /\ scanState = [buf |-> << >>, threw |-> FALSE, done |-> TRUE, removed |-> << >>]

\* handleStreamData(data) is called: the bytes are appended to the buffer
\* (line 98).  No call follows one that threw.
ScanCall(data) ==
    /\ scanState.done
    /\ ~scanState.threw
    /\ scanCall.n < MaxScanCalls
    /\ scanCall' = [buffer |-> scanState.buf, data |-> data, n |-> scanCall.n + 1]
    /\ scanState' = [buf |-> scanState.buf \o data, threw |-> FALSE, done |-> FALSE,
                     removed |-> << >>]

\* The while condition holds: one iteration of the loop; removed notes the
\* bytes an iteration that stays in the loop took from the buffer.
ScanIteration ==
    /\ ~scanState.done
    /\ Len(scanState.buf) >= MIN_PACKET
    /\ \E r \in { ScanStep(scanState.buf) } :
         scanState' =
           [buf |-> r.buf, threw |-> r.threw, done |-> r.done,
            removed |-> IF r.done THEN scanState.removed
                        ELSE Append(scanState.removed,
                                    Len(scanState.buf) - Len(r.buf))]
    /\ UNCHANGED scanCall

\* The while condition fails: handleStreamData returns.
ScanReturn ==
    /\ ~scanState.done
    /\ Len(scanState.buf) < MIN_PACKET
    /\ scanState' = [scanState EXCEPT !.done = TRUE]
    /\ UNCHANGED scanCall

(***************************************************************************)
(* The streaming delegate: class TuyaCameraStreamingDelegate.              *)
(***************************************************************************)
\* Bounds: the prepareStream calls and the handleStreamRequest calls.
MaxPrepares == 2
MaxRequests == 3

\* The session identifiers of the requests, and StreamRequestTypes.
SessionIds == { 1, 2 }
RequestTypes == { "START", "RECONFIGURE", "STOP" }

DelegateInit ==
    /\ sessions = [sid \in SessionIds |-> 0]
    /\ infos = << >>
    /\ requests = << >>
    /\ decoders = << >>
    /\ processes = << >>

\* prepareStream: a new SessionInfo, without ffmpeg, is put in the table.  A
\* session is prepared under an identifier that is not in the table.
prepareStream(sid) ==
    /\ sessions[sid] = 0
    /\ Len(infos) < MaxPrepares
    /\ infos' = Append(infos, [session |-> sid, ffmpeg |-> 0])
    /\ sessions' = [sessions EXCEPT ![sid] = Len(infos) + 1]
    /\ UNCHANGED << requests, decoders, processes >>

\* The call of a request's callback: no error, or the error's message.
Called(error) == << error >>

\* stopStream: the processes after sessionInfo.ffmpeg.kill('SIGTERM'), for
\* the SessionInfo the table holds under sid, if any; ffmpegAudio is never
\* set.
stopStream(sid) ==
    [p \in DOMAIN processes |->
        IF sessions[sid] # 0 /\ infos[sessions[sid]].ffmpeg = p
        THEN [processes[p] EXCEPT !.signalled = TRUE]
        ELSE processes[p]]

\* handleStreamRequest with a STOP request: stopStream, this.sessions.delete,
\* callback().
RequestStop(sid) ==
    /\ processes' = stopStream(sid)
    /\ sessions' = [sessions EXCEPT ![sid] = 0]
    /\ requests' = Append(requests, [type |-> "STOP", session |-> sid, info |-> 0,
                                     decoder |-> 0, callbacks |-> Called("none")])
    /\ UNCHANGED << infos, decoders >>

\* handleStreamRequest with a RECONFIGURE request: callback().
RequestReconfigure(sid) ==
    /\ requests' = Append(requests, [type |-> "RECONFIGURE", session |-> sid, info |-> 0,
                                     decoder |-> 0, callbacks |-> Called("none")])
    /\ UNCHANGED << sessions, infos, decoders, processes >>

\* handleStreamRequest with a START request, up to the await of
\* decoder.startStream(): without SessionInfo the callback gets the error;
\* otherwise getStreamSource creates a decoder, whose socket connects.
RequestStart(sid) ==
    IF sessions[sid] = 0
    THEN /\ requests' = Append(requests,
                               [type |-> "START", session |-> sid, info |-> 0,
                                decoder |-> 0,
                                callbacks |-> Called("Session not found")])
         /\ UNCHANGED << sessions, infos, decoders, processes >>
    ELSE /\ decoders' = Append(decoders, [session |-> sid, socket |-> "connecting",
                                          promise |-> "pending"])
         /\ requests' = Append(requests,
                               [type |-> "START", session |-> sid,
                                info |-> sessions[sid], decoder |-> Len(decoders) + 1,
                                callbacks |-> << >>])
         /\ UNCHANGED << sessions, infos, processes >>

\* handleStreamRequest(request, callback)
handleStreamRequest(type, sid) ==
    /\ Len(requests) < MaxRequests
    /\ CASE type = "START" -> RequestStart(sid)
         [] type = "RECONFIGURE" -> RequestReconfigure(sid)
         [] type = "STOP" -> RequestStop(sid)

\* The 'connect' event of a decoder's socket: sendStreamRequest, then
\* resolve(); a throw of buildPacket leaves the listener before resolve().
DecoderConnect(d) ==
    /\ decoders[d].socket = "connecting"
    /\ \E now \in StreamClock :
         decoders' = [decoders EXCEPT
                        ![d].socket = "open",
                        ![d].promise =
                            IF streamBuildPacket(CMD_STREAM_START, now, << >>).threw
                            THEN "pending" ELSE "resolved"]
    /\ UNCHANGED << sessions, infos, requests, processes >>

\* The 'error' event of a decoder's socket, which closes it: reject(err),
\* without effect on a promise that is resolved.
DecoderError(d) ==
    /\ decoders[d].socket \in { "connecting", "open" }
    /\ decoders' = [decoders EXCEPT
                      ![d].socket = "closed",
                      ![d].promise = IF @ = "pending" THEN "rejected" ELSE @]
    /\ UNCHANGED << sessions, infos, requests, processes >>

\* The device closes a decoder's connection: the 'close' listener logs.
DecoderClose(d) ==
    /\ decoders[d].socket = "open"
    /\ decoders' = [decoders EXCEPT ![d].socket = "closed"]
    /\ UNCHANGED << sessions, infos, requests, processes >>

\* startStream behind its await: getStreamSource returns the pipe when
\* decoder.startStream() resolved and the test pattern when it rejected; ffmpeg
\* is spawned, kept in the SessionInfo read before the await, and callback()
\* is called.
StartResumes(r) ==
    /\ requests[r].type = "START"
    /\ requests[r].callbacks = << >>
    /\ decoders[requests[r].decoder].promise # "pending"
    /\ processes' = Append(processes,
                           [session |-> requests[r].session, request |-> r,
                            source |-> IF decoders[requests[r].decoder].promise = "resolved"
                                       THEN "pipe" ELSE "testsrc",
                            signalled |-> FALSE])
    /\ infos' = [infos EXCEPT ![requests[r].info].ffmpeg = Len(processes) + 1]
    /\ requests' = [requests EXCEPT ![r].callbacks = Called("none")]
    /\ UNCHANGED << sessions, decoders >>

\* The state outside the two connections and the checks.
RestInit == PipeInit /\ DiscInit /\ TwinInit /\ DwellInit /\ ScanInit /\ DelegateInit

ExtInit == RestInit /\ CrcIdle

\* The 'message' listener that takes every datagram for the device's answer:
\* what the listener is not.
OnMessageAny(d) ==
    [ip |-> d.address, discTimer |-> Unarmed, discovery |-> "done"]

\* The 'message' listener of discoverIP: on a datagram that contains the
\* device id, this.ip = rinfo.address, clearTimeout, socket.close(), resolve().
OnMessage(d) ==
    IF d.hasId
    THEN [ip |-> d.address, discTimer |-> Unarmed, discovery |-> "done"]
    ELSE [ip |-> ip, discTimer |-> discTimer, discovery |-> discovery]

\* A datagram reaches the discovery socket while it is open.
DiscoverMessage(d) ==
    /\ ~constructing
    /\ discovery = "pending"
    /\ Len(datagrams) < MaxDatagrams
    /\ datagrams' = Append(datagrams, d)
    /\ ip' = OnMessage(d).ip
    /\ discTimer' = OnMessage(d).discTimer
    /\ discovery' = OnMessage(d).discovery
    /\ UNCHANGED << connected, socket, sequence, heartbeatInterval, sockets, intervals,
                    calls, written, motionTimers, emitted, pushes, constructing >>

\* The setTimeout of discoverIP fires: socket.close(), resolve().
DiscoverTimeout ==
    /\ discTimer = 0
    /\ discTimer' = Unarmed
    /\ discovery' = "done"
    /\ UNCHANGED << ctrlVars, constructing, datagrams >>

\* One step of time passes: no timer is due, that of discoverIP included.
DiscoverTick ==
    /\ ~constructing
    /\ discTimer # 0
    /\ Tick
    /\ discTimer' = Dec(discTimer)
    /\ UNCHANGED << constructing, discovery, datagrams >>

\* The constructor of the accessory: this.tuyaDevice.connect(), in the same
\* turn of the event loop as new TuyaDevice(...).
AccessoryConnect ==
    /\ constructing
    /\ Connect
    /\ constructing' = FALSE
    /\ UNCHANGED << discovery, discTimer, datagrams >>

(***************************************************************************)
(* The specifications.                                                     *)
(***************************************************************************)
\* No read is noted.
NoChunk == [kind |-> "none", seq |-> 0]

Init == CtrlInit /\ CodecIdle /\ lastChunk = NoChunk /\ StreamInit /\ ExtInit

\* connect() is called once, as the accessories call it.
ConnectsOnce == \A s \in Sock : s > 1 => sockets'[s].state = "none"

\* The command channel: one connect(), commands and heartbeats, and a device
\* whose frames handleData reads as the device meant them.
Next ==
    \/ Connect /\ ConnectsOnce /\ UNCHANGED restVars
    \/ Disconnect /\ UNCHANGED restVars
    \/ \E s \in Sock : SocketConnect(s) /\ UNCHANGED restVars
    \/ \E s \in Sock : SocketError(s) /\ UNCHANGED restVars
    \/ \E s \in Sock : SocketClose(s) /\ UNCHANGED restVars
    \/ \E s \in Sock : SocketTimeout(s) /\ UNCHANGED restVars
    \/ \E s \in Sock : SocketData(s, Replies) /\ UNCHANGED restVars
    \/ SendCommand /\ UNCHANGED restVars
    \/ \E i \in Sock : HeartbeatTick(i) /\ UNCHANGED restVars
    \/ \E k \in DOMAIN calls : CommandTimeout(k) /\ UNCHANGED restVars
    \/ Tick /\ UNCHANGED restVars

Spec == Init /\ [][Next]_vars

\* The command channel with every frame of the device: replies and status
\* pushes, in the layout of buildPacket and in the layout handleData reads.
NextDevice ==
    \/ Connect /\ ConnectsOnce /\ UNCHANGED restVars
    \/ Disconnect /\ UNCHANGED restVars
    \/ \E s \in Sock : SocketConnect(s) /\ UNCHANGED restVars
    \/ \E s \in Sock : SocketError(s) /\ UNCHANGED restVars
    \/ \E s \in Sock : SocketClose(s) /\ UNCHANGED restVars
    \/ \E s \in Sock : SocketTimeout(s) /\ UNCHANGED restVars
    \/ \E s \in Sock : SocketData(s, Handled) /\ UNCHANGED restVars
    \/ SendCommand /\ UNCHANGED restVars
    \/ \E i \in Sock : HeartbeatTick(i) /\ UNCHANGED restVars
    \/ \E k \in DOMAIN calls : CommandTimeout(k) /\ UNCHANGED restVars
    \/ \E j \in DOMAIN motionTimers : MotionClear(j) /\ UNCHANGED restVars
    \/ Tick /\ UNCHANGED restVars

SpecDevice == Init /\ [][NextDevice]_vars

\* The connection with connect() called again and again, heartbeats as the
\* only commands.
NextReconnect ==
    \/ Connect /\ UNCHANGED restVars
    \/ Disconnect /\ UNCHANGED restVars
    \/ \E s \in Sock : SocketConnect(s) /\ UNCHANGED restVars
    \/ \E s \in Sock : SocketError(s) /\ UNCHANGED restVars
    \/ \E s \in Sock : SocketClose(s) /\ UNCHANGED restVars
    \/ \E s \in Sock : SocketTimeout(s) /\ UNCHANGED restVars
    \/ \E s \in Sock : SocketData(s, Replies) /\ UNCHANGED restVars
    \/ \E i \in Sock : HeartbeatTick(i) /\ UNCHANGED restVars
    \/ \E k \in DOMAIN calls : CommandTimeout(k) /\ UNCHANGED restVars
    \/ Tick /\ UNCHANGED restVars

SpecReconnect == Init /\ [][NextReconnect]_vars

\* The command channel with a device whose replies come one frame per read,
\* two frames in one read, or one frame in two reads.
NextSegments ==
    \/ Connect /\ ConnectsOnce /\ UNCHANGED restVars
    \/ Disconnect /\ UNCHANGED restVars
    \/ \E s \in Sock : SocketConnect(s) /\ UNCHANGED restVars
    \/ \E s \in Sock : SocketError(s) /\ UNCHANGED restVars
    \/ \E s \in Sock : SocketClose(s) /\ UNCHANGED restVars
    \/ \E s \in Sock : SocketTimeout(s) /\ UNCHANGED restVars
    \/ \E s \in Sock : SocketSegment(s) /\ UNCHANGED << codecVars, streamVars, extVars >>
    \/ SendCommand /\ UNCHANGED restVars
    \/ \E i \in Sock : HeartbeatTick(i) /\ UNCHANGED restVars
    \/ \E k \in DOMAIN calls : CommandTimeout(k) /\ UNCHANGED restVars
    \/ Tick /\ UNCHANGED restVars

SpecSegments == Init /\ [][NextSegments]_vars

\* The connection with heartbeats as the only commands and a device that
\* also sends bytes that are no frame; lastChunk holds the kind of the read of
\* the last step, if it was one.
Forgotten == lastChunk' = NoChunk /\ UNCHANGED << codecVars, streamVars, extVars >>

NextChunks ==
    \/ Connect /\ ConnectsOnce /\ Forgotten
    \/ Disconnect /\ Forgotten
    \/ \E s \in Sock : SocketConnect(s) /\ Forgotten
    \/ \E s \in Sock : SocketError(s) /\ Forgotten
    \/ \E s \in Sock : SocketClose(s) /\ Forgotten
    \/ \E s \in Sock : SocketTimeout(s) /\ Forgotten
    \/ \E s \in Sock : SocketChunk(s) /\ UNCHANGED << codecVars, streamVars, extVars >>
    \/ \E i \in Sock : HeartbeatTick(i) /\ Forgotten
    \/ \E k \in DOMAIN calls : CommandTimeout(k) /\ Forgotten
    \/ Tick /\ Forgotten

SpecChunks == Init /\ [][NextChunks]_vars

\* connect() is called at most twice.
ConnectsTwice == \A s \in Sock : s > 2 => sockets'[s].state = "none"

\* The connection with connect() called a second time, heartbeats as the only
\* commands: heartbeats that time out and heartbeats that are refused.
NextHeartbeat ==
    \/ Connect /\ ConnectsTwice /\ UNCHANGED restVars
    \/ Disconnect /\ UNCHANGED restVars
    \/ \E s \in Sock : SocketConnect(s) /\ UNCHANGED restVars
    \/ \E s \in Sock : SocketError(s) /\ UNCHANGED restVars
    \/ \E s \in Sock : SocketClose(s) /\ UNCHANGED restVars
    \/ \E s \in Sock : SocketTimeout(s) /\ UNCHANGED restVars
    \/ \E s \in Sock : SocketData(s, Replies) /\ UNCHANGED restVars
    \/ \E i \in Sock : HeartbeatTick(i) /\ UNCHANGED restVars
    \/ \E k \in DOMAIN calls : CommandTimeout(k) /\ UNCHANGED restVars
    \/ Tick /\ UNCHANGED restVars

SpecHeartbeat == Init /\ [][NextHeartbeat]_vars

\* The codec: a packet is built, then read.
CodecNext ==
    \/ CodecEncode /\ UNCHANGED << ctrlVars, lastChunk, streamVars, extVars >>
    \/ CodecParse /\ UNCHANGED << ctrlVars, lastChunk, streamVars, extVars >>

InitCodec == CtrlInit /\ CodecInit /\ lastChunk = NoChunk /\ StreamInit /\ ExtInit

\* The stream connection: startStream(), the socket's events, stop(), and a
\* device that sends frames whole, after garbage, or in two reads.
NextStream ==
    \/ StartStream /\ UNCHANGED streamRest
    \/ StreamConnect /\ UNCHANGED streamRest
    \/ DeviceSend(StreamFrames) /\ UNCHANGED streamRest
    \/ DeviceSendHead(StreamFrames) /\ UNCHANGED streamRest
    \/ DeviceSendTail /\ UNCHANGED streamRest
    \/ StreamClose /\ UNCHANGED streamRest
    \/ StreamStop /\ UNCHANGED streamRest
    \/ StreamDestroy /\ UNCHANGED streamRest

SpecStream == Init /\ [][NextStream]_vars

\* The stream connection with a device whose frames are laid out as
\* handleStreamData reads them, sent whole, after garbage, in two reads, or in
\* two reads after garbage.
NextResync ==
    \/ StartStream /\ UNCHANGED streamRest
    \/ StreamConnect /\ UNCHANGED streamRest
    \/ DeviceSend(StreamReadFrames) /\ UNCHANGED streamRest
    \/ DeviceSendHead(StreamReadFrames) /\ UNCHANGED streamRest
    \/ DeviceSendGarbledHead(StreamReadFrames) /\ UNCHANGED streamRest
    \/ DeviceSendTail /\ UNCHANGED streamRest
    \/ StreamClose /\ UNCHANGED streamRest

SpecResync == Init /\ [][NextResync]_vars

\* The command channel with a device that sends motion pushes, heartbeats as
\* the only commands, and the time since the last 'motion' true event.
dwellRest ==
    << codecVars, lastChunk, streamVars, pipeVars, discVars, twinVars, crcVars, lateVars >>

NextDwell ==
    \/ Connect /\ ConnectsOnce /\ UNCHANGED restVars
    \/ \E s \in Sock : SocketConnect(s) /\ UNCHANGED restVars
    \/ \E s \in Sock : SocketClose(s) /\ UNCHANGED restVars
    \/ \E s \in Sock : SocketTimeout(s) /\ UNCHANGED restVars
    \/ \E s \in Sock : SocketPush(s) /\ UNCHANGED dwellRest
    \/ \E i \in Sock : HeartbeatTick(i) /\ UNCHANGED restVars
    \/ \E k \in DOMAIN calls : CommandTimeout(k) /\ UNCHANGED restVars
    \/ \E j \in DOMAIN motionTimers : MotionClear(j) /\ UNCHANGED restVars
    \/ DwellTick /\ UNCHANGED dwellRest

SpecDwell == Init /\ [][NextDwell]_vars

\* Both connections, each read also given to a twin with other bytes for the
\* checksum and the footer.
twinRest ==
    << codecVars, lastChunk, streamVars, pipeVars, discVars, crcVars, sinceMotion,
       lateVars >>

NextTwin ==
    \/ Connect /\ ConnectsOnce /\ UNCHANGED restVars
    \/ \E s \in Sock : SocketConnect(s) /\ UNCHANGED restVars
    \/ \E s \in Sock : TwinSocketData(s) /\ UNCHANGED twinRest
    \/ StartStream /\ UNCHANGED streamRest
    \/ StreamConnect /\ UNCHANGED streamRest
    \/ TwinDeviceSend(StreamFrames)
          /\ UNCHANGED << ctrlVars, codecVars, lastChunk, pipeVars, discVars, crcVars,
                          sinceMotion, lateVars >>

SpecTwin == Init /\ [][NextTwin]_vars

SpecCodec == InitCodec /\ [][CodecNext]_vars

\* The checksum check: the bytes are drawn, then summed by both functions.
NextCrc ==
    \/ CrcApply
          /\ UNCHANGED << ctrlVars, codecVars, lastChunk, streamVars, pipeVars, discVars,
                          twinVars, sinceMotion, lateVars >>

InitCrc ==
    CtrlInit /\ CodecIdle /\ lastChunk = NoChunk /\ StreamInit /\ RestInit /\ CrcInit

SpecCrc == InitCrc /\ [][NextCrc]_vars

\* The media pipe: the decoder emits videoData events, the listener writes.
NextPipe ==
    \/ \E data \in PipeUnits :
         OnVideoData(data)
           /\ UNCHANGED << ctrlVars, codecVars, lastChunk, streamVars, discVars, twinVars,
                           crcVars, sinceMotion, lateVars >>

SpecPipe == Init /\ [][NextPipe]_vars

\* What a step of the control socket, and what a step of the discovery,
\* leaves alone here.
discRest ==
    << codecVars, lastChunk, streamVars, pipeVars, discVars, twinVars, crcVars,
       sinceMotion, lateVars >>
ctrlRest ==
    << codecVars, lastChunk, streamVars, pipeVars, twinVars, crcVars, sinceMotion,
       lateVars >>

\* The steps that are bound to happen: the constructor runs to its end, time
\* passes, a due timer fires, the device accepts a connection being made.
Constructed == AccessoryConnect /\ UNCHANGED ctrlRest
TimePasses == DiscoverTick /\ UNCHANGED ctrlRest
DiscoveryEnds == DiscoverTimeout /\ UNCHANGED ctrlRest
Accepts == \E s \in Sock : SocketConnect(s) /\ UNCHANGED discRest

\* A camera from its construction: the accessory's connect(), the discovery
\* when no address is configured, and the events of the control socket.
NextDiscovery ==
    \/ Constructed
    \/ \E d \in Datagrams : DiscoverMessage(d) /\ UNCHANGED ctrlRest
    \/ DiscoveryEnds
    \/ TimePasses
    \/ Accepts
    \/ \E s \in Sock : SocketError(s) /\ UNCHANGED discRest
    \/ \E s \in Sock : SocketClose(s) /\ UNCHANGED discRest
    \/ \E s \in Sock : SocketTimeout(s) /\ UNCHANGED discRest
    \/ \E i \in Sock : HeartbeatTick(i) /\ UNCHANGED discRest
    \/ \E k \in DOMAIN calls : CommandTimeout(k) /\ UNCHANGED discRest

DiscoveryFair ==
    /\ WF_vars(Constructed)
    /\ WF_vars(TimePasses)
    /\ WF_vars(DiscoveryEnds)
    /\ WF_vars(Accepts)

SpecDiscovery == Init /\ [][NextDiscovery]_vars /\ DiscoveryFair

\* What a step of the scan leaves alone.
scanRest ==
    << ctrlVars, codecVars, lastChunk, streamVars, pipeVars, discVars, twinVars, crcVars,
       sinceMotion, delegateVars >>

\* The steps of the scan, which is code that runs to its end.
ScanIterates == ScanIteration /\ UNCHANGED scanRest
ScanReturns == ScanReturn /\ UNCHANGED scanRest

\* The scan of the frame-buffer: reads arrive, the loop runs step by step.
NextScan ==
    \/ \E data \in ScanChunks : ScanCall(data) /\ UNCHANGED scanRest
    \/ ScanIterates
    \/ ScanReturns

ScanFair == WF_vars(ScanIterates) /\ WF_vars(ScanReturns)

SpecScan == Init /\ [][NextScan]_vars /\ ScanFair

\* What a step of the streaming delegate leaves alone.
delegateRest ==
    << ctrlVars, codecVars, lastChunk, streamVars, pipeVars, discVars, twinVars, crcVars,
       sinceMotion, scanVars >>

\* The steps that are bound to happen: a connection being made is accepted
\* or fails, and code behind an await whose promise is settled runs on.
DecoderSettles ==
    /\ \E d \in DOMAIN decoders :
         \/ DecoderConnect(d)
         \/ decoders[d].socket = "connecting" /\ DecoderError(d)
    /\ UNCHANGED delegateRest
Resumes == \E r \in DOMAIN requests : StartResumes(r) /\ UNCHANGED delegateRest

\* The streaming delegate: sessions are prepared, requests arrive, and the
\* stream sockets of the decoders have their events.
NextDelegate ==
    \/ \E sid \in SessionIds : prepareStream(sid) /\ UNCHANGED delegateRest
    \/ \E type \in RequestTypes, sid \in SessionIds :
         handleStreamRequest(type, sid) /\ UNCHANGED delegateRest
    \/ DecoderSettles
    \/ \E d \in DOMAIN decoders : DecoderError(d) /\ UNCHANGED delegateRest
    \/ \E d \in DOMAIN decoders : DecoderClose(d) /\ UNCHANGED delegateRest
    \/ Resumes

DelegateFair == WF_vars(DecoderSettles) /\ WF_vars(Resumes)

SpecDelegate == Init /\ [][NextDelegate]_vars /\ DelegateFair

(***************************************************************************)
(* The claims.                                                             *)
(***************************************************************************)
Accepted == { k \in DOMAIN calls : calls[k].accepted }
TimedOut(k) == calls[k].state = "rejected" /\ calls[k].error = "Command timeout"

\* C1: two commands sent back-to-back whose responses (frames carrying their
\* sequence numbers, in the layout of the codec) have both arrived, in either
\* order, are each resolved with the payload of their own response.
C1_RepliesResolve ==
    \A j, k \in Accepted :
        (k = j + 1 /\ calls[j].reply # JsonNull /\ calls[k].reply # JsonNull)
            => /\ calls[j].state = "resolved" /\ calls[j].response = calls[j].reply
               /\ calls[k].state = "resolved" /\ calls[k].response = calls[k].reply

\* C2: once the timeout of a command has fired, no response registration for
\* its sequence remains.
C2_TimeoutRemovesEntry ==
    \A k \in Accepted : TimedOut(k) => ~calls[k].listener

\* C3: every accepted sendCommand call is pending with its timeout armed, or
\* resolved by the frame read with its sequence, or rejected by its timeout;
\* and once it is settled, nothing (a late response, a close) changes its
\* outcome.
C3_SettledOnce ==
    /\ [](\A k \in Accepted :
            \/ /\ calls[k].state = "pending"
               /\ calls[k].timer \in 0..COMMAND_TIMEOUT
               /\ calls[k].listener
            \/ /\ calls[k].state = "resolved"
               /\ calls[k].timer = Unarmed
               /\ ~calls[k].listener
               /\ calls[k].frameSeq = calls[k].seq
               /\ calls[k].response = calls[k].frameValue
            \/ /\ TimedOut(k)
               /\ calls[k].timer = Unarmed)
    /\ [][\A k \in DOMAIN calls :
            calls[k].state # "pending"
                => /\ calls'[k].state = calls[k].state
                   /\ calls'[k].response = calls[k].response
                   /\ calls'[k].error = calls[k].error]_vars

\* C3, its case: a call that its timeout rejected, and whose listener a
\* response that came later has run.
C3_LateResponse ==
    \E k \in Accepted : TimedOut(k) /\ ~calls[k].listener

\* C4: when the connection is closed, no command is left awaiting a response.
C4_CloseFailsPending ==
    ~connected => \A k \in Accepted : calls[k].state # "pending"

\* C5: while the connection is not connected, no heartbeat timer is armed.
C5_HeartbeatStopped ==
    ~connected => \A i \in Sock : intervals[i] = Unarmed

\* C6: the fields the receive side reads from a packet that buildPacket built
\* are the command, the sequence and the payload it was built from.
C6_RoundTrip ==
    codecOut.done
        => /\ codecOut.ok
           /\ codecOut.command = codecIn.command
           /\ codecOut.sequence = NextSequence(codecIn.sequence)
           /\ codecOut.encrypted = codecIn.payload

\* C7: once the connect timeout of a socket has fired, the connect() call that
\* created the socket is settled.
C7_TimeoutSettles ==
    \A s \in Sock : sockets[s].timedOut => sockets[s].result # "pending"

\* C8: a sendCommand call made while the connection is not connected is
\* rejected with 'Not connected' and changes nothing else: no frame is
\* written, the sequence counter stays, and the call has neither a listener
\* nor a timer.
C8_NotConnected ==
    /\ [](/\ \A k \in DOMAIN calls :
                ~calls[k].accepted
                    => /\ calls[k].state = "rejected"
                       /\ calls[k].error = "Not connected"
                       /\ calls[k].timer = Unarmed
                       /\ ~calls[k].listener
          /\ sequence = Cardinality(Accepted)
          /\ Len(written) = Cardinality(Accepted))
    /\ [][(Len(calls') = Len(calls) + 1 /\ ~connected)
            => /\ ~calls'[Len(calls')].accepted
               /\ SubSeq(calls', 1, Len(calls)) = calls
               /\ sequence' = sequence
               /\ written' = written
               /\ connected' = connected
               /\ socket' = socket
               /\ sockets' = sockets]_vars

\* C8, its case: a call refused after a call that was accepted.
C8_Refused ==
    \E k \in DOMAIN calls : k > 1 /\ calls[k - 1].accepted /\ ~calls[k].accepted

\* C9: every status push with the motion-detected data point that the device
\* has sent has raised the motion-detected event, once.
C9_MotionPerPush ==
    Len(SelectSeq(emitted, LAMBDA e : e)) = pushes

\* C10: a frame that resolves a pending command is not also handled as a
\* notification: the step that resolves a command emits no motion event.
C10_OneDestination ==
    [][(\E k \in DOMAIN calls :
            calls[k].state = "pending" /\ calls'[k].state = "resolved")
          => emitted' = emitted]_vars

\* handleStreamData on the whole frame, fed in one read to an empty buffer.
WholeFeed(f) == handleStreamData(Md5Stream(localKey), <<>>, f.bytes)

\* C11: a frame built by the encoder and fed to the stream connection in two
\* reads yields no packet and no event before its second read, and after it
\* the packets and events that the whole frame yields in one read.
C11_SplitAsWhole ==
    /\ (streamSent = <<>> /\ deviceRest # NoRest /\ deviceRest.frame.layout = "codec")
          => (packets = <<>> /\ videoData = <<>>)
    /\ (Len(streamSent) = 1 /\ deviceRest = NoRest
            /\ streamSent[1].layout = "codec" /\ streamSent[1].split)
          => /\ packets = WholeFeed(streamSent[1]).packets
             /\ videoData = WholeFeed(streamSent[1]).events

\* C12: every complete frame the device has sent for a pending command, alone
\* in a read, in two reads, or with another frame in one read, has been
\* processed: the command is resolved by it, with its payload.
C12_EveryFrameProcessed ==
    \A k \in Accepted :
        calls[k].reply # JsonNull
            => /\ calls[k].state = "resolved"
               /\ calls[k].frameSeq = calls[k].seq
               /\ calls[k].response = calls[k].reply

\* C13: when the device's first read on the stream connection was bytes that
\* are no frame, followed by the magic header and one complete frame, exactly
\* one packet has been cut from the buffer, the frame, and nothing is left in
\* the buffer.
C13_GarbageSkipped ==
    (Len(streamSent) = 1 /\ deviceRest = NoRest /\ streamSent[1].garbled)
        => /\ packets = << [command |-> streamSent[1].command,
                             payload |-> streamSent[1].payload] >>
           /\ frameBuffer = <<>>

\* The stream-data frames among the frames the device has sent.
DataFrames == SelectSeq(streamSent, LAMBDA f : f.command = CMD_STREAM_DATA)

\* C14: when the device has sent complete frames only, one read each, one
\* videoData event has been emitted for each of them that is a stream-data
\* frame, in their order and with its payload decrypted, and none for the
\* others.
C14_EventPerDataFrame ==
    (deviceRest = NoRest /\ \A i \in DOMAIN streamSent :
                               ~streamSent[i].garbled /\ ~streamSent[i].split)
        => /\ Len(videoData) = Len(DataFrames)
           /\ \A i \in DOMAIN DataFrames :
                 videoData[i] = decryptPayload(Md5Stream(localKey), DataFrames[i].payload)

\* C16: when the device has sent one stream-data frame whose payload does not
\* decrypt, exactly one videoData event has been emitted, with the payload
\* bytes as they came, and no exception has left the 'data' listener.
C16_RawPassedThrough ==
    (Len(streamSent) = 1 /\ deviceRest = NoRest
        /\ streamSent[1].command = CMD_STREAM_DATA
        /\ ~Decrypt(Md5Stream(localKey), streamSent[1].payload).ok)
        => /\ videoData = << streamSent[1].payload >>
           /\ ~streamFault

\* C17: every payload encrypted or decrypted on the stream connection used the
\* session key derived from the local key, never the local key itself.
C17_SessionKeyOnly ==
    \A u \in keysUsed : u.key = Md5Stream(localKey)

\* C15: a step in which the control socket reads bytes that are too short,
\* do not start with the magic header, are incomplete for their declared
\* length, do not decrypt or are no JSON leaves the whole state of the
\* connection as it was: connected, the sequence counter, the sockets, the
\* heartbeat timer, the pending commands and the events emitted.
C15_BadChunkDropped ==
    [][lastChunk'.kind \in BadKinds => UNCHANGED ctrlVars]_vars

\* C15, its case: undecipherable JSON has just been read while the connection
\* is connected, its heartbeat armed and the command with sequence 1 pending.
C15_Dropped ==
    /\ lastChunk.kind = "json"
    /\ connected
    /\ heartbeatInterval # 0
    /\ Awaited(1)

\* The frame that an accepted call wrote: the n-th frame written is that of
\* the n-th accepted call.
FrameOf(k) == written[Cardinality({ j \in Accepted : j <= k })]

\* C18: every frame written carries the sequence of the frame written before
\* it plus one; the listener of every accepted call is registered under the
\* sequence written in the call's frame; no two calls share a sequence.
C18_SequencePerFrame ==
    /\ \A i \in DOMAIN written :
          written[i].sequence = IF i = 1 THEN 1 ELSE written[i - 1].sequence + 1
    /\ Len(written) = Cardinality(Accepted)
    /\ \A k \in Accepted : calls[k].seq = FrameOf(k).sequence
    /\ \A j, k \in Accepted : j # k => calls[j].seq # calls[k].seq

\* C18, its case: a heartbeat and a command of another kind are pending
\* together, their frames written one after the other.
C18_TwoPending ==
    \E j, k \in Accepted :
        /\ j < k
        /\ calls[j].state = "pending" /\ calls[k].state = "pending"
        /\ (FrameOf(j).command = CMD_HEARTBEAT) # (FrameOf(k).command = CMD_HEARTBEAT)

\* The call is a heartbeat.  In the specification it is used in, heartbeats
\* are the only commands.
IsHeartbeat(k) == calls[k].accepted => FrameOf(k).command = CMD_HEARTBEAT

\* The connection state a failed heartbeat is to leave alone.
ConnectionUnchanged ==
    /\ connected' = connected
    /\ socket' = socket
    /\ sockets' = sockets
    /\ heartbeatInterval' = heartbeatInterval
    /\ sequence' = sequence
    /\ emitted' = emitted

\* C19: the step in which a heartbeat fails, by its timeout or by being
\* refused, leaves the connection state, the sockets and the heartbeat timers
\* as they are (the timer that fired a refused heartbeat is armed again for a
\* whole interval), and so every timer that startHeartbeat armed and that has
\* not been cleared stays armed.
C19_HeartbeatFailureHarmless ==
    /\ [][\A k \in DOMAIN calls :
            (IsHeartbeat(k) /\ calls[k].state = "pending" /\ calls'[k].state = "rejected")
                => (ConnectionUnchanged /\ intervals' = intervals)]_vars
    /\ [][(Len(calls') = Len(calls) + 1 /\ ~calls'[Len(calls')].accepted)
            => /\ ConnectionUnchanged
               /\ \E i \in Sock :
                     /\ intervals[i] = 0
                     /\ intervals' = [intervals EXCEPT ![i] = HEARTBEAT_INTERVAL]]_vars

\* C19, its case: a heartbeat that timed out and a heartbeat that was refused,
\* with a heartbeat timer still armed.
C19_FailedHeartbeats ==
    /\ \E k \in Accepted : IsHeartbeat(k) /\ TimedOut(k)
    /\ \E k \in DOMAIN calls : ~calls[k].accepted
    /\ \E i \in Sock : intervals[i] \in 0..HEARTBEAT_INTERVAL

\* The status reply holds the motion-switch data point, and it is true.
MotionSwitchOn(status) ==
    /\ ~status.isNull
    /\ status.hasDps
    /\ << DP_MOTION_SWITCH, "true" >> \in status.dps

\* C20: getMotionStatus never rejects; on a status query that was rejected
\* (not connected, command timeout) it returns false, and on one that was
\* resolved it returns the value of the motion-switch data point of the
\* reply, false when the reply does not hold it.
C20_MotionStatus ==
    /\ \A k \in DOMAIN calls :
          calls[k].state # "pending"
              => /\ ~getMotionStatus(calls[k]).threw
                 /\ getMotionStatus(calls[k]).value
                       = (calls[k].state = "resolved" /\ MotionSwitchOn(calls[k].response))
    /\ \A i \in DOMAIN JsonTexts :
          getMotionStatus(Handler(NewCall(1), JsonTexts[i].value)).value
              = (JsonTexts[i].value = StatusReply)

\* C20, its case: a status query answered with the motion switch on, and a
\* call that was rejected.
C20_Answered ==
    /\ \E k \in Accepted :
          /\ FrameOf(k).command = CMD_DP_QUERY
          /\ calls[k].state = "resolved"
          /\ calls[k].response = StatusReply
    /\ \E k \in DOMAIN calls : calls[k].state = "rejected"

\* The writes of videoInput that carry a unit, in order.
UnitWrites == SelectSeq(videoInput, LAMBDA w : w.kind = "unit")

\* C21: every unit written to the media pipe is the unit of a videoData
\* event, unchanged and in the order of the events; a unit whose first four
\* bytes are not the start code has the start code written immediately before
\* it, a unit that begins with the start code has nothing written before it
\* (the write before it, if any, is the preceding unit), and the start code is
\* written nowhere else.
C21_StartCodeBeforeUnit ==
    /\ [ i \in DOMAIN UnitWrites |-> UnitWrites[i].bytes ] = unitsEmitted
    /\ \A i \in DOMAIN videoInput :
         /\ videoInput[i].kind = "unit" =>
              IF Slice(videoInput[i].bytes, 0, 4) = START_CODE
              THEN i = 1 \/ videoInput[i - 1].kind = "unit"
              ELSE /\ i > 1
                   /\ videoInput[i - 1] = [kind |-> "code", bytes |-> START_CODE]
         /\ videoInput[i].kind = "code" =>
              /\ i < Len(videoInput)
              /\ videoInput[i + 1].kind = "unit"
              /\ Slice(videoInput[i + 1].bytes, 0, 4) # START_CODE

\* Units with and without the start code were written, one after the other.
C21_BothKinds ==
    /\ Len(unitsEmitted) = MaxUnits
    /\ \E i, j \in DOMAIN unitsEmitted :
         /\ i < j
         /\ Slice(unitsEmitted[i], 0, 4) # START_CODE
         /\ Slice(unitsEmitted[j], 0, 4) = START_CODE

\* The encryptions stop() has made for its stream-stop command.
StopEncrypts(used) ==
    { u \in used : u.op = "encrypt" /\ u.command = CMD_STREAM_STOP }

\* startStream() has resolved: the socket is open and the stream-start
\* command was written.
StreamStarted ==
    /\ streamSocket = "open"
    /\ \E i \in DOMAIN streamWritten : streamWritten[i].command = CMD_STREAM_START

\* C22: a stop() on a started stream connection (the socket is open) writes
\* its stream-stop command, exactly one, and arms the timer that destroys the
\* socket; once the socket has been destroyed no videoData event is emitted;
\* without a socket nothing is written and nothing is armed.
C22_StopWritesAndDestroys ==
    /\ [][(StreamStarted /\ StopEncrypts(keysUsed') # StopEncrypts(keysUsed))
            => /\ Len(streamWritten') = Len(streamWritten) + 1
               /\ streamWritten'[Len(streamWritten')].command = CMD_STREAM_STOP
               /\ stopArmed']_vars
    /\ [][streamSocket = "destroyed"
            => videoData' = videoData /\ streamSocket' = "destroyed"]_vars
    /\ [](streamSocket = "none"
            => /\ ~stopArmed
               /\ \A i \in DOMAIN streamWritten :
                    streamWritten[i].command # CMD_STREAM_STOP)

\* The step is the 'message' listener's run on the datagram d.
Received(d) == datagrams' = Append(datagrams, d)

\* C23: discovery ends within its timeout: while it is pending its timer is
\* armed, so time cannot pass beyond the timeout, and it ends eventually.
\* The first datagram that contains the device id makes its source the
\* address and ends the discovery; the timeout ends it with the address
\* unresolved; a datagram without the device id changes nothing.
C23_DiscoveryTerminates ==
    /\ [](discovery = "pending" => discTimer \in 0..DISCOVER_TIMEOUT /\ ip = 0)
    /\ [](discovery = "done" => discTimer = Unarmed)
    /\ <>(discovery # "pending")
    /\ [][\A d \in Datagrams : Received(d) =>
              IF d.hasId
              THEN ip' = d.address /\ discovery' = "done"
              ELSE ip' = ip /\ discovery' = discovery /\ discTimer' = discTimer]_vars
    /\ [][(discovery = "pending" /\ discovery' = "done" /\ datagrams' = datagrams)
            => discTimer = 0 /\ ip' = 0]_vars
    /\ [][discovery # "pending" => ip' = ip /\ datagrams' = datagrams]_vars

\* A datagram without the device id came first, then the device's answer.
C23_AnsweredSecond ==
    /\ Len(datagrams) = 2
    /\ ~datagrams[1].hasId
    /\ datagrams[2].hasId
    /\ ip = datagrams[2].address
    /\ discovery = "done"

\* The device has answered the discovery broadcast.
Discovered ==
    /\ datagrams # << >>
    /\ datagrams[Len(datagrams)] = [hasId |-> TRUE, address |-> DEVICE_IP]

\* C24: when a camera has no configured address and the device answers the
\* discovery broadcast, the control connection of that camera is eventually
\* open to the discovered address.
C24_AutoDiscoveredConnects ==
    Discovered ~> (/\ connected
                   /\ socket # 0
                   /\ sockets[socket].state = "open"
                   /\ sockets[socket].address = DEVICE_IP)

\* C25: the header fields are never read from a buffer shorter than 20
\* bytes: no read of handleStreamData goes out of range, whatever the device
\* sends.
C25_NoShortRead == ~streamFault

\* C26: a frame and its twin, which differs from it in the checksum and the
\* footer only, have the same outcome: handleData makes the same of both on
\* the control connection, and the two stream decoders, fed the same frames
\* but for those bytes, have cut the same packets, emitted the same events and
\* hold buffers of the same length.
C26_TrailerIgnored ==
    /\ twinRead.frame = twinRead.twin
    /\ twinPackets = packets
    /\ twinVideo = videoData
    /\ Len(twinBuffer) = Len(frameBuffer)
    /\ twinFault = streamFault

\* C27: the bit-by-bit checksum of the control connection and the
\* table-driven checksum of the stream connection return the same four
\* bytes for the same input, and these are the reflected CRC-32 of the input
\* (polynomial 0xEDB88320, initial value and final XOR 0xFFFFFFFF), most
\* significant byte first: 00 00 00 00 for the empty input and CB F4 39 26
\* for the text "123456789".
C27_SameChecksum ==
    crcOut.done =>
        /\ crcOut.control = crcOut.stream
        /\ crcOut.stream = Crc32Reference(crcIn)
        /\ crcIn = << >> => crcOut.stream = << 0, 0, 0, 0 >>
        /\ crcIn = CheckText => crcOut.stream = << 203, 244, 57, 38 >>
        /\ crcIn = << 97 >> => crcOut.stream = << 232, 183, 190, 67 >>

\* Both functions were applied to the check text.
C27_CheckText ==
    /\ crcOut.done
    /\ crcIn = CheckText
    /\ crcOut.control = << 203, 244, 57, 38 >>

\* The heartbeat timers that are armed.
ArmedHeartbeats == { i \in Sock : intervals[i] # Unarmed }

\* C28: whatever connect(), disconnect() and the sockets' events do, at most
\* one heartbeat timer is armed.
C28_OneHeartbeat == Cardinality(ArmedHeartbeats) <= 1

\* Socket s, which is not the one this.socket holds, emits 'error' or 'close'
\* in this step.
StaleSocketEnds(s) ==
    /\ s # socket
    /\ sockets[s].state # "closed"
    /\ sockets'[s].state = "closed"

\* C29: while connected is set, this.socket holds an open socket, the one
\* whose 'connect' event set the flag and started the heartbeat; and the
\* 'error' or 'close' event of a socket that a later connect() has replaced
\* neither clears connected nor stops the heartbeat.
C29_CurrentSocketOnly ==
    /\ [](connected => /\ socket # 0
                       /\ sockets[socket].state = "open"
                       /\ heartbeatInterval = socket)
    /\ [][\A s \in Sock : StaleSocketEnds(s) =>
              /\ connected' = connected
              /\ heartbeatInterval' = heartbeatInterval
              /\ \A i \in Sock \ { s } : intervals'[i] = intervals[i]]_vars

\* C30: a 'motion' false event is emitted only when the dwell time has
\* passed since the last 'motion' true event.
C30_DwellBeforeClear ==
    [][emitted' = Append(emitted, FALSE) => sinceMotion >= MOTION_CLEAR_DELAY]_vars

\* The buffer holds less than a frame: fewer than 20 bytes (none included),
\* or the header of a frame whose length field, at offset 16, asks for more
\* bytes than there are.
Settled(buf) ==
    \/ Len(buf) < MIN_PACKET
    \/ /\ StartsWithHeader(buf)
       /\ Len(buf) - MIN_PACKET < ReadUInt32BE(buf, 16)

\* What handleStreamData, applied as a whole, makes of the call being
\* followed.
WholeCall == handleStreamData(Md5Stream(localKey), scanCall.buffer, scanCall.data)

\* C31: after every handleStreamData call that returns normally, the
\* frame-buffer is empty, or shorter than 20 bytes, or begins with the magic
\* header of a frame that is not yet complete: no complete frame is left in
\* it.  The loop followed step by step ends as handleStreamData applied as a
\* whole does.
C31_NoCompleteFrameLeft ==
    scanState.done =>
        /\ scanState.buf = WholeCall.buf
        /\ scanState.threw = WholeCall.threw
        /\ ~scanState.threw => Settled(scanState.buf)

\* C31 happens: a call returned normally after it cut bytes from the buffer
\* and left the beginning of a frame of 20 bytes or more in it.
C31_HeadKept ==
    /\ scanState.done
    /\ ~scanState.threw
    /\ scanState.removed # << >>
    /\ Len(scanState.buf) >= MIN_PACKET

\* C32: the scan loop of handleStreamData terminates for every buffer
\* content: each iteration either leaves the loop or takes at least 20 bytes
\* from the buffer, also for frames whose length field is 0 or less than 8;
\* every call returns (or throws) in the end.
C32_ScanTerminates ==
    /\ [][(~scanState.done /\ Len(scanState.buf) >= MIN_PACKET)
            => \/ scanState'.done
               \/ Len(scanState'.buf) + MIN_PACKET <= Len(scanState.buf)]_vars
    /\ []<>scanState.done

\* C32 happens: in one call the loop cut a frame whose length field is 0 (20
\* bytes) and a frame whose length field is 4 (24 bytes).
C32_ShortFramesCut ==
    /\ scanState.done
    /\ \E i, j \in DOMAIN scanState.removed :
         scanState.removed[i] = MIN_PACKET /\ scanState.removed[j] = MIN_PACKET + 4

\* The processes spawned on behalf of request r.
SpawnedFor(r) == { p \in DOMAIN processes : processes[p].request = r }

\* The callback of request r was called at most once, and as the kind of
\* request has it: without error for RECONFIGURE and STOP; with 'Session not
\* found', and without a process, for a START without session; without error
\* and with a process fed by the test pattern for a START whose stream
\* connection failed to start.
CalledAsDue(r) ==
    LET q == requests[r]
    IN  /\ Len(q.callbacks) <= 1
        /\ q.type # "START" => q.callbacks = Called("none")
        /\ (q.type = "START" /\ q.decoder = 0) =>
              /\ q.callbacks = Called("Session not found")
              /\ SpawnedFor(r) = {}
        /\ (q.type = "START" /\ q.decoder # 0 /\ q.callbacks # << >>) =>
              /\ q.callbacks = Called("none")
              /\ \E p \in SpawnedFor(r) :
                   processes[p].source =
                       IF decoders[q.decoder].promise = "rejected"
                       THEN "testsrc" ELSE "pipe"

\* C33: handleStreamRequest eventually calls the request's callback, exactly
\* once, for every request (START, RECONFIGURE, STOP): also for a START for
\* a session that is not in the table (error 'Session not found', no process
\* spawned) and for a START whose stream connection fails to start (test
\* pattern, no error).
C33_CallbackOnce ==
    /\ [](\A r \in DOMAIN requests : CalledAsDue(r))
    /\ \A i \in 1..MaxRequests :
         [](i \in DOMAIN requests =>
              <>(i \in DOMAIN requests /\ requests[i].callbacks # << >>))

\* This step is a STOP request for session sid.
StopRequested(sid) ==
    /\ Len(requests') = Len(requests) + 1
    /\ requests'[Len(requests')].type = "STOP"
    /\ requests'[Len(requests')].session = sid

\* C34: after a STOP request for a session, the session is removed from the
\* session table and every transcoder process that earlier START requests,
\* one or several, spawned for the session has been sent a termination
\* signal.
C34_StopSignalsAll ==
    [][\A sid \in SessionIds :
         StopRequested(sid) =>
            /\ sessions'[sid] = 0
            /\ \A p \in DOMAIN processes :
                 processes[p].session = sid => processes'[p].signalled]_vars

\* Decoder d was created by a START request for a session for which a STOP
\* request came later.
StoppedSince(d) ==
    /\ d \in DOMAIN decoders
    /\ \E q, r \in DOMAIN requests :
         /\ requests[q].decoder = d
         /\ q < r
         /\ requests[r].type = "STOP"
         /\ requests[r].session = requests[q].session

\* C35: after a STOP request for a session, the stream connection that a
\* START request opened for the session has been stopped: no stream socket
\* opened for a stopped session stays open.
C35_StoppedSessionCloses ==
    \A d \in 1..MaxRequests :
        [](StoppedSince(d) => <>(d \in DOMAIN decoders /\ decoders[d].socket = "closed"))
====
